---------------------------- MODULE Spec2Model ----------------------------
(***************************************************************************)
(* A model of mbdiscid: the ISRC scanner (isrc.c), the SCSI sessions       *)
(* (scsi_linux.c, scsi_macos.c), the device acquisition (device.c) and the *)
(* textual TOC dialects (toc.c), the disc identifiers (discid.c) and the   *)
(* CD-Text pack parser (cdtext.c).                                         *)
(*                                                                         *)
(* Characters are ASCII codes, C strings are sequences of non-zero codes,  *)
(* bytes are 0..255.  Each part of the program has its own variables and   *)
(* its own specification; the other parts' variables stay idle.            *)
(***************************************************************************)
EXTENDS Integers, Sequences, FiniteSets, TLC

VARIABLES
    \* ---- collector (isrc.c, isrc_collector_t) ----
    coll,        \* the candidate collector
    winner,      \* last result of collector_get_majority ("none" before a call)
    \* ---- isrc_read_disc (isrc.c) ----
    platform,    \* "linux" | "macos": which scsi_*.c the build holds
    disc,        \* the inserted disc and the drive's behaviour (the environment)
    toc,         \* toc_t: the tracks, with their isrc fields
    ipc,         \* position inside isrc_read_disc
    idx,         \* loop index of the current loop of isrc_read_disc
    probes,      \* probe_indices[] (empty before select_probe_tracks)
    hasIsrc,     \* disc_has_isrc
    found,       \* found_count
    iret,        \* return value of isrc_read_disc ("none" while running)
    sess,        \* number of open scsi sessions
    qlog,        \* history: [phase, track] of every batch Q read issued
    decided,     \* history: per track, the collector at its last majority decision
    mode,        \* history: "fallback" | "probe" | "full" once chosen, "none" before
    treads,      \* history: per track, the batch reads of its last read_track_isrc
    \* ---- scsi_open / scsi_close (scsi_macos.c) ----
    opc,         \* position inside scsi_open / scsi_close
    dev,         \* struct scsi_device
    tries,       \* the retry counter of the current loop
    oret,        \* what scsi_open returned: "none" | "dev" | "NULL"
    olog,        \* history: the handles acquired and released, in order
    excl,        \* history: the ObtainExclusiveAccess calls and the waits after them
    \* ---- device_read_disc (device.c) ----
    dplat,       \* "linux" | "macos": the build
    flags,       \* the flags argument: READ_MCN | READ_ISRC | READ_CDTEXT bits
    dpc,         \* position inside device_read_disc
    dsess,       \* number of device sessions (handles on the drive) open
    dexcl,       \* TRUE while exclusive access to the drive is held
    qreads,      \* Q-subchannel reads issued by the ISRC phase so far
    dret,        \* return value of device_read_disc, "none" before it returns
    dlog,        \* history: the opens, commands and closes sent to the drive,
                 \* and the failures of an open or of a command
    \* ---- toc_parse / toc_format_* (toc.c) ----
    tpc,         \* "toc": a toc_t to render; "text": a text to parse; "parsed"
    tocIn,       \* <<t>>: the toc_t handed to toc_format_*; <<>> when a text is given
    format,      \* the toc_format_t dialect
    text,        \* the TOC text: a sequence of character codes
    parsed,      \* what toc_parse returned: [ret, toc], "none" before
    detected,    \* what toc_detect_format reported for the text, "none" before
    info,        \* <<disc_info_t>> once calculate_ids has run: [toc, type, ids]
    \* ---- cdtext_parse (cdtext.c) ----
    cpc,         \* position inside cdtext_parse: "size" | "charset" | "text" | "build" | "done"
    packs,       \* raw_data: the sequence of 18-byte packs handed to cdtext_parse
    ci,          \* the loop index i of the current pass (0-based, as in the code)
    bstate,      \* block_state_t: charset, track range and the accumulators
    current_track, \* int current_track[16], indexed by pack_type & 0x0F
    cdtext,      \* <<cdtext_t>> once cdtext_parse has returned, <<>> before
    cret,        \* return value of cdtext_parse, "none" before it returns
    \* ---- device_read_toc (device.c) with the full TOC (scsi_linux.c, device.c) ----
    rpc,         \* position inside device_read_toc
    rplat,       \* "linux" | "macos": the build
    rdrive,      \* the environment: what libdiscid and the drive answer
    ri,          \* the loop index i over the full TOC descriptors
    ftoc,        \* the outputs of the full TOC read: scsi_first, scsi_last,
                 \* track_control, track_session, track_offsets, session_leadouts,
                 \* last_session
    haveFull,    \* the local have_full_toc
    rtoc,        \* <<toc_t>> once device_read_toc has filled *toc, <<>> before
    rret,        \* return value of device_read_toc, "none" before it returns
    sidx         \* history: the indices used on session_leadouts[]

collVars == <<coll, winner>>
isrcVars == <<platform, disc, toc, ipc, idx, probes, hasIsrc, found, iret, sess, qlog,
              decided, mode, treads>>
openVars == <<opc, dev, tries, oret, olog, excl>>
discVars == <<dplat, flags, dpc, dsess, dexcl, qreads, dret, dlog>>
tocVars == <<tpc, tocIn, format, text, parsed, detected, info>>
cdtVars == <<cpc, packs, ci, bstate, current_track, cdtext, cret>>
rtocVars == <<rpc, rplat, rdrive, ri, ftoc, haveFull, rtoc, rret, sidx>>
vars == <<collVars, isrcVars, openVars, discVars, tocVars, cdtVars, rtocVars>>

\* the variables of the other parts, left alone by a part's actions
notColl == <<isrcVars, openVars, discVars, tocVars, cdtVars, rtocVars>>
notIsrc == <<collVars, openVars, discVars, tocVars, cdtVars, rtocVars>>
notOpen == <<collVars, isrcVars, discVars, tocVars, cdtVars, rtocVars>>
notDisc == <<collVars, isrcVars, openVars, tocVars, cdtVars, rtocVars>>
notToc == <<collVars, isrcVars, openVars, discVars, cdtVars, rtocVars>>
notCdt == <<collVars, isrcVars, openVars, discVars, tocVars, rtocVars>>
notRtoc == <<collVars, isrcVars, openVars, discVars, tocVars, cdtVars>>

-----------------------------------------------------------------------------
(* Generic helpers *)

\* The one element of a singleton set.  Only({F(x) : x \in {e}}) is F(e) with e
\* evaluated once, whatever the number of times F uses x.
Only(S) == CHOOSE x \in S : TRUE

Max2(a, b) == IF a >= b THEN a ELSE b
Min2(a, b) == IF a <= b THEN a ELSE b

RECURSIVE CStr(_)
\* The C string held in a byte buffer: the bytes before the first NUL.
CStr(bytes) ==
    IF bytes = <<>> \/ Head(bytes) = 0 THEN <<>>
    ELSE <<Head(bytes)>> \o CStr(Tail(bytes))

\* <ctype.h> in the C locale
isupper(c) == c >= 65 /\ c <= 90
islower(c) == c >= 97 /\ c <= 122
isdigit(c) == c >= 48 /\ c <= 57
isalnum(c) == isupper(c) \/ islower(c) \/ isdigit(c)

-----------------------------------------------------------------------------
(* isrc.c: configuration *)

PROBE_COUNT == 3
MIN_TRACKS_FOR_PROBE == 5
MAX_CANDIDATES == 8
INITIAL_TRANCHES == 3
RESCUE_TRANCHES == 1
FRAMES_PER_TRANCHE == 192
BOOKEND_FRAMES == 2 * 75
SHORT_TRACK_THRESHOLD ==
    (2 * BOOKEND_FRAMES) + ((INITIAL_TRANCHES + RESCUE_TRANCHES + 1) * FRAMES_PER_TRANCHE)
EARLY_STOP_VALID_FRAMES == 64

-----------------------------------------------------------------------------
(* isrc.c: isrc_validate, the collector *)

isrc_validate(isrc) ==
    IF Len(isrc) # 12 THEN FALSE
    ELSE IF \A i \in 1..12 : isrc[i] = 48 THEN FALSE
    ELSE IF ~isupper(isrc[1]) \/ ~isupper(isrc[2]) THEN FALSE
    ELSE IF \E i \in 3..5 : ~isalnum(isrc[i]) THEN FALSE
    ELSE IF ~isdigit(isrc[6]) \/ ~isdigit(isrc[7]) THEN FALSE
    ELSE IF \E i \in 8..12 : ~isdigit(isrc[i]) THEN FALSE
    ELSE TRUE

EmptyCollector ==
    [candidates |-> <<>>, total_valid |-> 0, total_read |-> 0]

\* num_candidates is Len(c.candidates); a candidate is [isrc, count]
CandIndex(c, isrc) ==
    LET hits == {i \in 1..Len(c.candidates) : c.candidates[i].isrc = isrc}
    IN  IF hits = {} THEN 0 ELSE CHOOSE i \in hits : \A j \in hits : i <= j

collector_add(c, isrc) ==
    IF ~isrc_validate(isrc) THEN c
    ELSE LET c1 == [c EXCEPT !.total_valid = @ + 1]
             k  == CandIndex(c, isrc)
         IN  IF k # 0
             THEN [c1 EXCEPT !.candidates[k].count = @ + 1]
             ELSE IF Len(c.candidates) < MAX_CANDIDATES
             THEN [c1 EXCEPT !.candidates = Append(@, [isrc |-> isrc, count |-> 1])]
             ELSE c1

RECURSIVE MaxIdxFrom(_, _, _, _)
\* the first loop of collector_get_majority: i runs from the second candidate
MaxIdxFrom(cands, i, max_idx, max_count) ==
    IF i > Len(cands) THEN max_idx
    ELSE IF cands[i].count > max_count
         THEN MaxIdxFrom(cands, i + 1, i, cands[i].count)
         ELSE MaxIdxFrom(cands, i + 1, max_idx, max_count)

RECURSIVE SecondMaxFrom(_, _, _, _)
\* the second loop of collector_get_majority
SecondMaxFrom(cands, i, max_idx, second_max) ==
    IF i > Len(cands) THEN second_max
    ELSE IF i # max_idx /\ cands[i].count > second_max
         THEN SecondMaxFrom(cands, i + 1, max_idx, cands[i].count)
         ELSE SecondMaxFrom(cands, i + 1, max_idx, second_max)

NoWinner == <<>>

majority_tie_wins(c) ==
    IF Len(c.candidates) = 0 THEN NoWinner
    ELSE LET max_idx    == MaxIdxFrom(c.candidates, 2, 1, c.candidates[1].count)
             max_count  == c.candidates[max_idx].count
             second_max == SecondMaxFrom(c.candidates, 1, max_idx, 0)
         IN  IF max_count >= 2 /\ (second_max = 0 \/ max_count >= second_max)
             THEN c.candidates[max_idx].isrc
             ELSE NoWinner

\* collector_get_majority: the winning ISRC, or NoWinner for NULL
collector_get_majority(c) ==
    IF Len(c.candidates) = 0 THEN NoWinner
    ELSE LET max_idx    == MaxIdxFrom(c.candidates, 2, 1, c.candidates[1].count)
             max_count  == c.candidates[max_idx].count
             second_max == SecondMaxFrom(c.candidates, 1, max_idx, 0)
         IN  IF max_count >= 2 /\ (second_max = 0 \/ max_count >= 2 * second_max)
             THEN c.candidates[max_idx].isrc
             ELSE NoWinner

-----------------------------------------------------------------------------
(* scsi_linux.c / scsi_macos.c: decoding a formatted Q frame.               *)
(* A raw frame is the sequence of its bytes 0..8 (bytes 9..15 are not read *)
(* by the decoders); B(buf, i) is the C expression buf[i].                  *)

B(buf, i) == buf[i + 1]

\* scsi_linux.c decode_isrc_char
decode_isrc_char(c0) ==
    LET c == c0 % 64
    IN  IF c = 0 THEN 48
        ELSE IF c >= 1 /\ c <= 9 THEN 48 + c
        ELSE IF c >= 17 /\ c <= 42 THEN 65 + (c - 17)
        ELSE 63

\* scsi_macos.c DECODE6
DECODE6(c) ==
    IF c = 0 THEN 48
    ELSE IF c <= 9 THEN 48 + c
    ELSE IF c >= 17 /\ c <= 42 THEN 65 + c - 17
    ELSE 63

\* the seven BCD digits of the ISRC, bytes 5..8, as both decoders write them
BcdChars(buf) ==
    << 48 + ((B(buf, 5) \div 16) % 16), 48 + (B(buf, 5) % 16),
       48 + ((B(buf, 6) \div 16) % 16), 48 + (B(buf, 6) % 16),
       48 + ((B(buf, 7) \div 16) % 16), 48 + (B(buf, 7) % 16),
       48 + ((B(buf, 8) \div 16) % 16) >>

\* scsi_linux.c decode_q_buffer (mcn, track and index are not modelled: the
\* scanner never reads them)
decode_q_buffer(buf) ==
    LET adr == B(buf, 0) % 16
    IN  [ control   |-> (B(buf, 0) \div 16) % 16,
          adr       |-> adr,
          crc_valid |-> (B(buf, 0) # 0 \/ B(buf, 1) # 0),
          has_isrc  |-> (adr = 3),
          isrc      |-> IF adr = 3
                        THEN CStr(<< decode_isrc_char(B(buf, 1) \div 4),
                                     decode_isrc_char(((B(buf, 1) % 4) * 16) + (B(buf, 2) \div 16)),
                                     decode_isrc_char(((B(buf, 2) % 16) * 4) + (B(buf, 3) \div 64)),
                                     decode_isrc_char(B(buf, 3) % 64),
                                     decode_isrc_char(B(buf, 4) \div 4) >>
                                  \o BcdChars(buf))
                        ELSE <<>> ]

\* scsi_macos.c parse_q_subchannel
parse_q_subchannel(buf) ==
    LET adr == B(buf, 0) % 16
        c1  == (B(buf, 1) \div 4) % 64
        c2  == ((B(buf, 1) % 4) * 16) + ((B(buf, 2) \div 16) % 16)
        c3  == ((B(buf, 2) % 16) * 4) + ((B(buf, 3) \div 64) % 4)
        c4  == B(buf, 3) % 64
        c5  == (B(buf, 4) \div 4) % 64
    IN  [ control   |-> (B(buf, 0) \div 16) % 16,
          adr       |-> adr,
          crc_valid |-> (B(buf, 0) # 0 \/ B(buf, 1) # 0),
          has_isrc  |-> (adr = 3),
          isrc      |-> IF adr = 3
                        THEN CStr(<< DECODE6(c1), DECODE6(c2), DECODE6(c3),
                                     DECODE6(c4), DECODE6(c5) >> \o BcdChars(buf))
                        ELSE <<>> ]

\* memset(q, 0, sizeof(*q)): what a q_subchannel_t holds after a failed
\* single-frame read
ZeroQ == [control |-> 0, adr |-> 0, crc_valid |-> FALSE, has_isrc |-> FALSE, isrc |-> <<>>]

-----------------------------------------------------------------------------
(* The environment: discs and drives.  These definitions build the inputs  *)
(* of the model (what a drive returns); they model no code.                *)

\* 6-bit code of an ISRC character (the inverse of decode_isrc_char)
SixBit(ch) == IF ch >= 65 THEN ch - 65 + 17 ELSE ch - 48

\* The bytes 0..8 of an ADR=3 frame carrying the 12 characters `s`
\* (s[6..12] are digits or the characters ':'..'?' of a bad BCD nibble).
IsrcFrame(s) ==
    LET c1 == SixBit(s[1])  c2 == SixBit(s[2])  c3 == SixBit(s[3])
        c4 == SixBit(s[4])  c5 == SixBit(s[5])
        d(i) == s[i] - 48
    IN  << 3,
           (c1 * 4) + (c2 \div 16),
           ((c2 % 16) * 16) + (c3 \div 4),
           ((c3 % 4) * 64) + c4,
           c5 * 4,
           (d(6) * 16) + d(7),
           (d(8) * 16) + d(9),
           (d(10) * 16) + d(11),
           d(12) * 16 >>

ISRC_A   == <<85, 83, 82, 67, 49, 55, 54, 48, 55, 56, 51, 57>>   \* USRC17607839
ISRC_B   == <<71, 66, 65, 89, 69, 54, 56, 48, 48, 48, 49, 49>>   \* GBAYE6800011
ISRC_C   == <<70, 82, 90, 48, 51, 57, 49, 48, 49, 50, 51, 52>>   \* FRZ039101234
ISRC_ZERO == <<48, 48, 48, 48, 48, 48, 48, 48, 48, 48, 48, 48>>  \* 000000000000
ISRC_DIG == <<49, 50, 82, 67, 49, 55, 54, 48, 55, 56, 51, 57>>   \* 12RC17607839
ISRC_BCD == <<85, 83, 82, 67, 49, 55, 54, 58, 55, 56, 51, 57>>   \* USRC176:7839 (nibble 10)
ISRC_LOW == <<117, 115, 114, 99, 49, 55, 54, 48, 55, 56, 51, 57>> \* usrc17607839

FrameA    == IsrcFrame(ISRC_A)
FrameB    == IsrcFrame(ISRC_B)
FrameZero == IsrcFrame(ISRC_ZERO)
FrameDig  == IsrcFrame(ISRC_DIG)
FrameBcd  == IsrcFrame(ISRC_BCD)
\* an ADR=3 frame whose third 6-bit code is 12 (no character): US?C1 7607839
FrameBad6 == <<3, 121, 195, 19, 4, 118, 7, 131, 144>>
\* an ADR=1 position frame (track 1, index 1) and an all-zero frame
FramePos  == <<1, 1, 1, 0, 0, 0, 0, 0, 0>>
FrameNull == <<0, 0, 0, 0, 0, 0, 0, 0, 0>>
FrameData == <<65, 1, 1, 0, 0, 0, 0, 0, 0>>

\* The raw Q frame the disc holds at frame `rel` of track `t` (a track
\* record), under the disc's layout.
LayoutFrame(layout, first, t, rel) ==
    IF t.type = "data" THEN FrameData
    ELSE CASE layout = "none"    -> FramePos
           [] layout = "null"    -> FrameNull
           [] layout = "sparseA" -> IF rel % 40 = 7 THEN FrameA ELSE FramePos
           [] layout = "denseA"  -> IF rel % 2 = 0 THEN FrameA ELSE FramePos
           [] layout = "altAB"   -> IF rel % 8 = 1 THEN FrameA
                                    ELSE IF rel % 8 = 5 THEN FrameB ELSE FramePos
           [] layout = "skewAB"  ->
                IF t.length < SHORT_TRACK_THRESHOLD
                THEN (IF rel < 20 THEN FrameA
                      ELSE IF rel >= t.length - 20 THEN FrameB ELSE FramePos)
                ELSE (IF rel >= t.length \div 2 /\ rel < (t.length \div 2) + 20 THEN FrameA
                      ELSE IF rel < 20 THEN FrameB
                      ELSE FramePos)
           [] layout = "invalid" -> CASE rel % 4 = 0 -> FrameZero
                                      [] rel % 4 = 1 -> FrameBcd
                                      [] rel % 4 = 2 -> FrameBad6
                                      [] OTHER       -> FrameDig
           [] layout = "junkA"   -> IF rel % 40 = 7 THEN FrameA
                                    ELSE IF rel % 40 = 20 THEN FrameBcd
                                    ELSE IF rel % 40 = 30 THEN FrameZero ELSE FramePos
           [] layout = "firstOnly" -> IF first /\ rel % 40 = 7 THEN FrameA ELSE FramePos
           [] OTHER -> FramePos

\* The raw Q frame at an LBA of the disc whose tracks are `tracks`.
RawQ(d, tracks, lba) ==
    LET hits == {i \in 1..Len(tracks) :
                    tracks[i].offset <= lba /\ lba < tracks[i].offset + tracks[i].length}
    IN  IF hits = {} THEN FrameNull
        ELSE LET i == CHOOSE i \in hits : TRUE
                 firstAudio == \A j \in 1..(i - 1) : tracks[j].type # "audio"
             IN  LayoutFrame(d.layout, firstAudio, tracks[i], lba - tracks[i].offset)

\* The outcome of one READ CD command for `n` sectors: -1 when the command
\* fails, else the number of bytes transferred.
ReadCdResult(d, n) ==
    CASE d.drive = "fail"                -> -1
      [] d.drive = "batchFail" /\ n > 1  -> -1
      [] d.drive = "partial" /\ n > 1    -> (n \div 2) * 16
      [] OTHER                           -> n * 16

\* What an uninitialised q_subchannel_t may hold.
Garbage(d) ==
    CASE d.garbage = "A"   -> [control |-> 0, adr |-> 3, crc_valid |-> TRUE,
                               has_isrc |-> TRUE, isrc |-> ISRC_A]
      [] d.garbage = "low" -> [control |-> 0, adr |-> 3, crc_valid |-> TRUE,
                               has_isrc |-> TRUE, isrc |-> ISRC_LOW]
      [] OTHER             -> ZeroQ

-----------------------------------------------------------------------------
(* scsi_read_q_subchannel_batch, both platforms.  The outcome of a call is *)
(* [n, lba, chunks, req]: n is the return value, req the count asked for,  *)
(* and chunks tells which entries                                          *)
(* of the caller's array the call wrote: chunk k covers the entries        *)
(* base .. base+bc-1; kind "parsed" wrote the first fr of them from the    *)
(* transfer buffer (of which the first xf frames hold drive data and the   *)
(* rest the memset zeros), kind "single" wrote each by a single-frame      *)
(* read, kind "none" wrote nothing.                                        *)

MAX_BATCH_SECTORS == 75
LINUX_BATCH_LIMIT == 256

\* how many of the frames lba .. lba+k-1 parse with crc_valid set (the
\* success_count of one batch)
CountCrcValid(d, tracks, lba, k) ==
    Cardinality({i \in 0..(k - 1) :
                    \E raw \in {RawQ(d, tracks, lba + i)} : parse_q_subchannel(raw).crc_valid})

\* scsi_linux.c scsi_read_q_subchannel_batch
linux_read_q_subchannel_batch(d, tracks, lba, count0) ==
    IF count0 <= 0 THEN [n |-> 0, lba |-> lba, chunks |-> <<>>, req |-> count0]
    ELSE LET count == IF count0 > LINUX_BATCH_LIMIT THEN LINUX_BATCH_LIMIT ELSE count0
             res   == ReadCdResult(d, count)
         IN  IF res < 0 THEN [n |-> 0, lba |-> lba, chunks |-> <<>>, req |-> count0]
             ELSE [n |-> count, lba |-> lba, req |-> count0,
                   chunks |-> << [base |-> 0, bc |-> count, kind |-> "parsed",
                                  fr |-> count, xf |-> res \div 16] >>]

RECURSIVE MacChunks(_, _, _, _, _, _, _)
\* the while loop of scsi_macos.c scsi_read_q_subchannel_batch
MacChunks(d, tracks, current_lba, remaining, array_offset, total_success, chunks) ==
    IF remaining <= 0 THEN [n |-> total_success, chunks |-> chunks]
    ELSE LET batch_count == IF remaining > MAX_BATCH_SECTORS
                            THEN MAX_BATCH_SECTORS ELSE remaining
             result == ReadCdResult(d, batch_count)
         IN  IF result < 0
             THEN IF batch_count > 1
                  THEN \* single-sector reads for this batch
                       LET ok == ReadCdResult(d, 1) >= 0
                       IN  MacChunks(d, tracks, current_lba + batch_count,
                                     remaining - batch_count, array_offset + batch_count,
                                     total_success + (IF ok THEN batch_count ELSE 0),
                                     Append(chunks, [base |-> array_offset, bc |-> batch_count,
                                                     kind |-> "single", fr |-> batch_count,
                                                     xf |-> IF ok THEN batch_count ELSE 0]))
                  ELSE [n |-> total_success,
                        chunks |-> Append(chunks, [base |-> array_offset, bc |-> batch_count,
                                                   kind |-> "none", fr |-> 0, xf |-> 0])]
             ELSE LET frames_returned == Min2(result \div 16, batch_count)
                  IN  MacChunks(d, tracks, current_lba + batch_count,
                                remaining - batch_count, array_offset + batch_count,
                                total_success + CountCrcValid(d, tracks, current_lba,
                                                              frames_returned),
                                Append(chunks, [base |-> array_offset, bc |-> batch_count,
                                                kind |-> "parsed", fr |-> frames_returned,
                                                xf |-> frames_returned]))

\* scsi_macos.c scsi_read_q_subchannel_batch
macos_read_q_subchannel_batch(d, tracks, start_lba, count) ==
    IF count <= 0 THEN [n |-> 0, lba |-> start_lba, chunks |-> <<>>, req |-> count]
    ELSE Only({ [n |-> r.n, lba |-> start_lba, chunks |-> r.chunks, req |-> count]
                : r \in {MacChunks(d, tracks, start_lba, count, 0, 0, <<>>)} })

scsi_read_q_subchannel_batch(plat, d, tracks, lba, count) ==
    IF plat = "linux" THEN linux_read_q_subchannel_batch(d, tracks, lba, count)
    ELSE macos_read_q_subchannel_batch(d, tracks, lba, count)

\* The chunk of outcome r that covers entry i (0 when none does).
ChunkOf(r, i) ==
    LET hits == {k \in 1..Len(r.chunks) :
                    r.chunks[k].base <= i /\ i < r.chunks[k].base + r.chunks[k].bc}
    IN  IF hits = {} THEN 0 ELSE CHOOSE k \in hits : TRUE

\* Whether the call with outcome r wrote entry i of the caller's array.
Written(r, i) ==
    LET k == ChunkOf(r, i)
    IN  k # 0 /\ i - r.chunks[k].base < r.chunks[k].fr

\* The q_subchannel_t the call with outcome r wrote to entry i.
WrittenValue(plat, d, tracks, r, i) ==
    Only({ IF ch.kind = "single"
           THEN (IF ch.xf > 0 THEN parse_q_subchannel(raw) ELSE ZeroQ)
           ELSE LET buf == IF i - ch.base < ch.xf THEN raw ELSE FrameNull
                IN  IF plat = "linux" THEN decode_q_buffer(buf) ELSE parse_q_subchannel(buf)
           : ch \in {r.chunks[ChunkOf(r, i)]}, raw \in {RawQ(d, tracks, r.lba + i)} })

RECURSIVE Entry(_, _, _, _, _)
\* What entry i of the caller's array holds after the calls rs (the last is
\* the latest) on the same array: the latest write, or what malloc left.
Entry(plat, d, tracks, rs, i) ==
    IF rs = <<>> THEN Garbage(d)
    ELSE IF Written(rs[Len(rs)], i) THEN WrittenValue(plat, d, tracks, rs[Len(rs)], i)
    ELSE Entry(plat, d, tracks, SubSeq(rs, 1, Len(rs) - 1), i)

-----------------------------------------------------------------------------
(* isrc.c: the per-track procedure *)

is_short_track(t) == t.length < SHORT_TRACK_THRESHOLD

\* the body of the frame loops of read_track_isrc
ProcessFrame(c, q) ==
    LET c1 == [c EXCEPT !.total_read = @ + 1]
    IN  IF q.crc_valid /\ q.has_isrc THEN collector_add(c1, q.isrc) ELSE c1

RECURSIVE FoldFrames(_, _, _, _, _, _, _)
\* for (i = lo; i < hi; i++) ProcessFrame(batch[i]), the range split in
\* halves; rs are the reads made into the batch array so far
FoldFrames(c0, plat, d, tracks, rs, lo, hi) ==
    IF hi <= lo THEN c0
    ELSE IF hi = lo + 1
    THEN Only({ ProcessFrame(c, q) : c \in {c0}, q \in {Entry(plat, d, tracks, rs, lo)} })
    ELSE Only({ FoldFrames(left, plat, d, tracks, rs, (lo + hi) \div 2, hi)
                : left \in {FoldFrames(c0, plat, d, tracks, rs, lo, (lo + hi) \div 2)} })

\* one batch read and the loop over its read_count entries; rs0 are the
\* earlier reads into the same array
ReadInto(c, plat, d, tracks, rs0, lba, count) ==
    Only({ [ c  |-> IF rs[Len(rs)].n > 0
                    THEN FoldFrames(c, plat, d, tracks, rs, 0, rs[Len(rs)].n)
                    ELSE [c EXCEPT !.total_read = @ + count],
             rs |-> rs ]
           : rs \in {Append(rs0, scsi_read_q_subchannel_batch(plat, d, tracks, lba, count))} })

\* the positions spread over the usable region with the step usable_length /
\* num_tranches
calculate_tranche_positions_widestep(t, num_tranches) ==
    LET usable_start == t.offset + BOOKEND_FRAMES
        usable_length == t.length - (2 * BOOKEND_FRAMES)
    IN  [i \in 1..num_tranches |-> usable_start + ((usable_length \div num_tranches) * i)]

\* calculate_tranche_positions: the positions[] array (1-based here)
calculate_tranche_positions(t, num_tranches) ==
    LET us0 == t.offset + BOOKEND_FRAMES
        ue0 == t.offset + t.length - BOOKEND_FRAMES
        usable_start == IF ue0 <= us0 THEN t.offset ELSE us0
        usable_end   == IF ue0 <= us0 THEN t.offset + t.length ELSE ue0
        usable_length == usable_end - usable_start
    IN  IF num_tranches = 1
        THEN << usable_start + (usable_length \div 2) >>
        ELSE LET step == usable_length \div (num_tranches + 1)
             IN  [i \in 1..num_tranches |-> usable_start + (step * i)]

TrackResult_keep(w, rs, c) ==
    [ok |-> w # NoWinner,
     isrc |-> IF w = NoWinner /\ Len(c.candidates) > 0 THEN c.candidates[1].isrc ELSE w,
     reads |-> rs, decided |-> c]

\* A result of read_track_isrc: ok is the return value, isrc what track->isrc
\* holds afterwards, reads the batch reads issued, decided the collector at
\* the deciding call of collector_get_majority.
TrackResult(w, rs, c) ==
    [ok |-> w # NoWinner, isrc |-> w, reads |-> rs, decided |-> c]

RECURSIVE InitialTranches(_, _, _, _, _, _, _)
\* the loop over the initial tranches, from tranche t (0-based), with the
\* early stop; [c, rs]
InitialTranches(c, plat, d, tracks, rs, pos, t) ==
    IF t >= INITIAL_TRANCHES THEN [c |-> c, rs |-> rs]
    ELSE Only({ IF x.c.total_valid >= EARLY_STOP_VALID_FRAMES
                   /\ collector_get_majority(x.c) # NoWinner
                THEN x
                ELSE InitialTranches(x.c, plat, d, tracks, x.rs, pos, t + 1)
                : x \in {ReadInto(c, plat, d, tracks, rs, pos[t + 1], FRAMES_PER_TRANCHE)} })

\* the rescue tranche: the last position of the 4-tranche layout
Rescue(y, plat, d, tracks, t) ==
    LET pos4 == calculate_tranche_positions(t, INITIAL_TRANCHES + RESCUE_TRANCHES)
    IN  Only({ TrackResult(collector_get_majority(z.c), z.rs, z.c)
               : z \in {ReadInto(y.c, plat, d, tracks, y.rs,
                                 pos4[INITIAL_TRANCHES + 1], FRAMES_PER_TRANCHE)} })

read_track_isrc(plat, d, tracks, t) ==
    IF t.length < SHORT_TRACK_THRESHOLD
    THEN Only({ TrackResult(collector_get_majority(x.c), x.rs, x.c)
                : x \in {ReadInto(EmptyCollector, plat, d, tracks, <<>>, t.offset, t.length)} })
    ELSE Only({ IF collector_get_majority(y.c) # NoWinner
                THEN TrackResult(collector_get_majority(y.c), y.rs, y.c)
                ELSE IF Len(y.c.candidates) > 0
                THEN Rescue(y, plat, d, tracks, t)
                ELSE TrackResult(NoWinner, y.rs, y.c)
                : y \in {InitialTranches(EmptyCollector, plat, d, tracks, <<>>,
                             calculate_tranche_positions(t, INITIAL_TRANCHES), 0)} })

\* select_probe_tracks: the probe_indices (1-based track indices), or <<>>
\* when it returns 0
select_probe_tracks(tracks) ==
    LET eligible == SelectSeq([i \in 1..Len(tracks) |-> i],
                        LAMBDA i : tracks[i].type = "audio" /\ ~is_short_track(tracks[i]))
        n  == Len(eligible)
        p0a == n \div 3
        p1a == n \div 2
        p2a == (n * 2) \div 3
        p0 == IF p0a = 0 /\ n > 3 THEN 1 ELSE p0a
        p2b == IF p2a = n - 1 /\ n > 3 THEN n - 2 ELSE p2a
        p1 == IF p1a = p0 THEN p1a + 1 ELSE p1a
        p2c == IF p2b = p1 THEN p2b + 1 ELSE p2b
        p2 == IF p2c >= n THEN n - 1 ELSE p2c
    IN  IF n < PROBE_COUNT THEN <<>>
        ELSE << eligible[p0 + 1], eligible[p1 + 1], eligible[p2 + 1] >>

-----------------------------------------------------------------------------
(* scsi_macos.c: scsi_read_isrc.  The drive's READ SUB-CHANNEL response is  *)
(* part of the environment: d.subq names what it returns.                   *)

\* bytes 8..20 of the response buffer (byte 8 holds TCVAL), or <<>> when the
\* command fails
SubQResponse(d) ==
    CASE d.subq = "A"    -> <<128>> \o ISRC_A
      [] d.subq = "zero" -> <<128>> \o ISRC_ZERO
      [] d.subq = "low"  -> <<128>> \o ISRC_LOW
      [] d.subq = "nul"  -> <<128, 85, 83, 0, 0, 0, 0, 0, 0, 0, 0, 0, 0>>
      [] d.subq = "none" -> <<0, 0, 0, 0, 0, 0, 0, 0, 0, 0, 0, 0, 0>>
      [] OTHER           -> <<>>

\* scsi_read_isrc: [ok, isrc] with isrc the 12 bytes copied to the caller
scsi_read_isrc(d, track) ==
    LET buf == SubQResponse(d)
    IN  IF buf = <<>> THEN [ok |-> FALSE, isrc |-> <<>>]
        ELSE IF buf[1] \div 128 = 0 THEN [ok |-> FALSE, isrc |-> <<>>]
        ELSE [ok |-> TRUE, isrc |-> SubSeq(buf, 2, 13)]

-----------------------------------------------------------------------------
(* isrc.c: isrc_read_disc, one action per step *)

IsAudio(t) == t.type = "audio"

\* audio_count as isrc_read_disc counts it
AudioCount(tracks) == Cardinality({i \in 1..Len(tracks) : IsAudio(tracks[i])})

\* the first audio track (test_track), 0 when there is none
FirstAudio(tracks) ==
    LET a == {i \in 1..Len(tracks) : IsAudio(tracks[i])}
    IN  IF a = {} THEN 0 ELSE CHOOSE i \in a : \A j \in a : i <= j

\* scsi_open succeeds or fails; on success the macOS build tests batch
\* reading next, the Linux build goes straight to the scan
IsrcOpen ==
    /\ ipc = "start"
    /\ \E ok \in BOOLEAN :
         IF ok
         THEN /\ sess' = sess + 1
              /\ ipc' = IF platform = "macos" THEN "test" ELSE "select"
              /\ iret' = iret
         ELSE /\ sess' = sess
              /\ ipc' = "done"
              /\ iret' = -1
    /\ UNCHANGED <<platform, disc, toc, idx, probes, hasIsrc, found, qlog, decided, treads>>
    /\ UNCHANGED <<mode, notIsrc>>

\* macOS: the batch test on the first audio track
BatchTest ==
    /\ ipc = "test"
    /\ \E tt \in {FirstAudio(toc.tracks)} :
         IF tt = 0
         THEN /\ ipc' = "fallback"
              /\ mode' = "fallback"
              /\ qlog' = qlog
         ELSE \E r \in {scsi_read_q_subchannel_batch(platform, disc, toc.tracks,
                                                     toc.tracks[tt].offset + 100, 10)} :
                LET valid_frames == Cardinality({i \in 0..(r.n - 1) :
                                        Entry(platform, disc, toc.tracks, <<r>>, i).crc_valid})
                    batch_works == r.n > 0 /\ valid_frames > 0
                IN  /\ qlog' = qlog \cup {[phase |-> "test", track |-> tt]}
                    /\ ipc' = IF batch_works THEN "select" ELSE "fallback"
                    /\ mode' = IF batch_works THEN mode ELSE "fallback"
    /\ idx' = 1
    /\ UNCHANGED <<platform, disc, toc, probes, hasIsrc, found, iret, sess, decided, treads>>
    /\ UNCHANGED notIsrc

\* macOS: one iteration of the drive-based fallback loop
FallbackStep ==
    /\ ipc = "fallback"
    /\ idx <= toc.track_count
    /\ \E r \in {scsi_read_isrc(disc, toc.tracks[idx].number)} :
           IF IsAudio(toc.tracks[idx]) /\ r.ok
           THEN /\ toc' = [toc EXCEPT !.tracks[idx].isrc = CStr(r.isrc)]
                /\ found' = found + 1
           ELSE UNCHANGED <<toc, found>>
    /\ idx' = idx + 1
    /\ UNCHANGED <<platform, disc, ipc, probes, hasIsrc, iret, sess, qlog, decided, treads>>
    /\ UNCHANGED <<mode, notIsrc>>

\* macOS: the end of the fallback: close and return found_count
FallbackDone ==
    /\ ipc = "fallback"
    /\ idx > toc.track_count
    /\ sess' = sess - 1
    /\ iret' = found
    /\ ipc' = "done"
    /\ UNCHANGED <<platform, disc, toc, idx, probes, hasIsrc, found, qlog, decided, treads>>
    /\ UNCHANGED <<mode, notIsrc>>

SelectPhase_Min4 ==
    /\ ipc = "select"
    /\ LET p == IF AudioCount(toc.tracks) >= MIN_TRACKS_FOR_PROBE - 1
                THEN select_probe_tracks(toc.tracks) ELSE <<>>
       IN  /\ probes' = p
           /\ ipc' = IF Len(p) = PROBE_COUNT THEN "probe" ELSE "full"
           /\ mode' = IF Len(p) = PROBE_COUNT THEN "probe" ELSE "full"
    /\ idx' = 1
    /\ UNCHANGED <<platform, disc, toc, hasIsrc, found, iret, sess, qlog, decided, treads>>
    /\ UNCHANGED notIsrc

\* the choice between the probe phase and the full scan
SelectPhase ==
    /\ ipc = "select"
    /\ LET p == IF AudioCount(toc.tracks) >= MIN_TRACKS_FOR_PROBE
                THEN select_probe_tracks(toc.tracks) ELSE <<>>
       IN  /\ probes' = p
           /\ ipc' = IF Len(p) = PROBE_COUNT THEN "probe" ELSE "full"
           /\ mode' = IF Len(p) = PROBE_COUNT THEN "probe" ELSE "full"
    /\ idx' = 1
    /\ UNCHANGED <<platform, disc, toc, hasIsrc, found, iret, sess, qlog, decided, treads>>
    /\ UNCHANGED notIsrc

\* read_track_isrc on track i during `phase`: the changes to toc, qlog, decided
ScanTrack(i, phase, r) ==
    /\ toc' = [toc EXCEPT !.tracks[i].isrc = r.isrc]
    /\ qlog' = qlog \cup {[phase |-> phase, track |-> i]}
    /\ decided' = [decided EXCEPT ![i] = r.decided]
    /\ treads' = [treads EXCEPT ![i] = r.reads]

\* one probe
ProbeStep ==
    /\ ipc = "probe"
    /\ idx <= PROBE_COUNT
    /\ \E i \in {probes[idx]} :
       \E r \in {read_track_isrc(platform, disc, toc.tracks, toc.tracks[i])} :
           /\ ScanTrack(i, "probe", r)
           /\ hasIsrc' = (hasIsrc \/ r.ok)
           /\ found' = IF r.ok THEN found + 1 ELSE found
    /\ idx' = idx + 1
    /\ UNCHANGED <<platform, disc, ipc, probes, iret, sess>>
    /\ UNCHANGED <<mode, notIsrc>>

ProbeDone_NoStop ==
    /\ ipc = "probe"
    /\ idx > PROBE_COUNT
    /\ ipc' = "remaining"
    /\ idx' = 1
    /\ UNCHANGED <<sess, iret>>
    /\ UNCHANGED <<platform, disc, toc, probes, hasIsrc, found, qlog, decided, treads>>
    /\ UNCHANGED <<mode, notIsrc>>

\* after the probes: stop on a miss, else go on to the remaining tracks
ProbeDone ==
    /\ ipc = "probe"
    /\ idx > PROBE_COUNT
    /\ IF ~hasIsrc
       THEN /\ sess' = sess - 1
            /\ iret' = 0
            /\ ipc' = "done"
            /\ idx' = idx
       ELSE /\ ipc' = "remaining"
            /\ idx' = 1
            /\ UNCHANGED <<sess, iret>>
    /\ UNCHANGED <<platform, disc, toc, probes, hasIsrc, found, qlog, decided, treads>>
    /\ UNCHANGED <<mode, notIsrc>>

was_probe(i) == \E j \in 1..Len(probes) : probes[j] = i

\* one iteration of the loop over the remaining tracks
RemainingStep ==
    /\ ipc = "remaining"
    /\ idx <= toc.track_count
    /\ IF IsAudio(toc.tracks[idx]) /\ ~was_probe(idx)
       THEN \E r \in {read_track_isrc(platform, disc, toc.tracks, toc.tracks[idx])} :
                /\ ScanTrack(idx, "remaining", r)
                /\ found' = IF r.ok THEN found + 1 ELSE found
       ELSE UNCHANGED <<toc, qlog, decided, treads, found>>
    /\ idx' = idx + 1
    /\ UNCHANGED <<platform, disc, ipc, probes, hasIsrc, iret, sess>>
    /\ UNCHANGED <<mode, notIsrc>>

\* one iteration of the full_scan loop
FullStep ==
    /\ ipc = "full"
    /\ idx <= toc.track_count
    /\ IF IsAudio(toc.tracks[idx])
       THEN \E r \in {read_track_isrc(platform, disc, toc.tracks, toc.tracks[idx])} :
                /\ ScanTrack(idx, "full", r)
                /\ found' = IF r.ok THEN found + 1 ELSE found
       ELSE UNCHANGED <<toc, qlog, decided, treads, found>>
    /\ idx' = idx + 1
    /\ UNCHANGED <<platform, disc, ipc, probes, hasIsrc, iret, sess>>
    /\ UNCHANGED <<mode, notIsrc>>

\* the end of either loop: close and return found_count
ScanDone ==
    /\ ipc \in {"remaining", "full"}
    /\ idx > toc.track_count
    /\ sess' = sess - 1
    /\ iret' = found
    /\ ipc' = "done"
    /\ UNCHANGED <<platform, disc, toc, idx, probes, hasIsrc, found, qlog, decided, treads>>
    /\ UNCHANGED <<mode, notIsrc>>

-----------------------------------------------------------------------------
(* The discs, drives and TOCs the scan is run on *)

MaxTracks == 7

Layouts == {"none", "null", "sparseA", "denseA", "altAB", "skewAB",
            "invalid", "junkA", "firstOnly"}

Disc(l, dr, g, q) == [layout |-> l, drive |-> dr, garbage |-> g, subq |-> q]

\* discs on a drive that answers every command
PlainDiscs == {Disc(l, "ok", "zero", "fail") : l \in Layouts}

\* drives that fail or cut short multi-sector reads, with what malloc left
\* in the batch array
FlakyDiscs ==
    {Disc(l, dr, g, "fail") : l \in {"junkA", "altAB"},
                              dr \in {"batchFail", "partial"},
                              g \in {"zero", "A", "low"}}

\* discs and drives on which no batch read yields a CRC-valid frame, with
\* the drive's answer to READ SUB-CHANNEL
NoBatchDiscs ==
    {Disc("null", "ok", "zero", q) : q \in {"A", "zero", "low", "nul", "none", "fail"}}
    \cup {Disc("sparseA", "fail", "zero", q) : q \in {"A", "zero", "low", "nul", "none", "fail"}}

Discs == PlainDiscs \cup FlakyDiscs \cup NoBatchDiscs

CoreDiscs == {Disc(l, "ok", "zero", "fail") : l \in {"none", "sparseA", "altAB", "skewAB"}}

Patterns == {"long", "mixed", "enhanced", "alt", "fewLong", "short", "ragged"}

\* the kind of track i of n under a pattern: "L" long audio, "S" short audio,
\* "D" data, "R" long audio of a length that varies with the track
KindAt(pat, i, n) ==
    CASE pat = "long"     -> "L"
      [] pat = "mixed"    -> IF i = 1 THEN "D" ELSE "L"
      [] pat = "enhanced" -> IF i = n /\ n > 1 THEN "D" ELSE "L"
      [] pat = "alt"      -> IF i % 2 = 1 THEN "L" ELSE "S"
      [] pat = "fewLong"  -> IF i <= 2 THEN "L" ELSE "S"
      [] pat = "ragged"   -> "R"
      [] OTHER            -> "S"

LengthAt(kind, i) ==
    CASE kind = "L" -> IF i % 2 = 1 THEN 2000 ELSE SHORT_TRACK_THRESHOLD
      [] kind = "S" -> IF i % 2 = 0 THEN SHORT_TRACK_THRESHOLD - 1 ELSE 400
      [] kind = "R" -> SHORT_TRACK_THRESHOLD + 1 + ((i * 613) % 1900)
      [] OTHER      -> 5000

RECURSIVE OffsetAt(_, _)
OffsetAt(pat_n, i) ==
    IF i = 1 THEN 0
    ELSE OffsetAt(pat_n, i - 1)
         + LengthAt(KindAt(pat_n[1], i - 1, pat_n[2]), i - 1)

\* the toc_t device_read_toc hands to isrc_read_disc (the fields the scan
\* reads), every isrc empty
DiscToc(pat, n) ==
    [ track_count |-> n,
      tracks |-> [i \in 1..n |->
                    [ number |-> i,
                      type   |-> IF KindAt(pat, i, n) = "D" THEN "data" ELSE "audio",
                      offset |-> OffsetAt(<<pat, n>>, i),
                      length |-> LengthAt(KindAt(pat, i, n), i),
                      isrc   |-> <<>> ]] ]

Tocs == {DiscToc(pat, n) : pat \in Patterns, n \in 1..MaxTracks}

CoreTocs == {DiscToc("alt", 3), DiscToc("alt", MaxTracks)}

-----------------------------------------------------------------------------
(* Specification of the collector *)

MaxAdds == 6

IsrcPool == {ISRC_A, ISRC_B, ISRC_C, ISRC_ZERO, ISRC_LOW}

NotCalled == [called |-> FALSE, isrc |-> NoWinner]

IdleIsrc ==
    /\ platform = "idle" /\ disc = "idle" /\ toc = "idle" /\ ipc = "idle"
    /\ idx = 0 /\ probes = <<>> /\ hasIsrc = FALSE /\ found = 0 /\ iret = "none"
    /\ sess = 0 /\ qlog = {} /\ decided = <<>> /\ mode = "none" /\ treads = <<>>

IdleColl == coll = EmptyCollector /\ winner = NotCalled

IdleOpen ==
    /\ opc = "idle" /\ dev = "idle" /\ tries = 0 /\ oret = "none" /\ olog = <<>>
    /\ excl = <<>>

IdleDisc ==
    /\ dplat = "idle" /\ flags = 0 /\ dpc = "idle" /\ dsess = 0 /\ dexcl = FALSE
    /\ qreads = 0 /\ dret = "none" /\ dlog = <<>>

IdleToc ==
    /\ tpc = "idle" /\ tocIn = <<>> /\ format = "none" /\ text = <<>> /\ parsed = "none"
    /\ detected = "none" /\ info = <<>>

IdleCdt ==
    /\ cpc = "idle" /\ packs = <<>> /\ ci = 0 /\ bstate = <<>> /\ current_track = <<>>
    /\ cdtext = <<>> /\ cret = "none"

IdleRtoc ==
    /\ rpc = "idle" /\ rplat = "idle" /\ rdrive = <<>> /\ ri = 0 /\ ftoc = <<>>
    /\ haveFull = FALSE /\ rtoc = <<>> /\ rret = "none" /\ sidx = {}

InitColl ==
    /\ coll = EmptyCollector /\ winner = NotCalled
    /\ IdleIsrc /\ IdleOpen /\ IdleDisc /\ IdleToc /\ IdleCdt /\ IdleRtoc

\* a CRC-valid ADR=3 frame arrives: collector_add
CollAdd ==
    /\ coll.total_read < MaxAdds
    /\ \E isrc \in IsrcPool :
         coll' = collector_add([coll EXCEPT !.total_read = @ + 1], isrc)
    /\ winner' = NotCalled
    /\ UNCHANGED notColl

\* collector_get_majority is called
CollMajority ==
    /\ winner' = [called |-> TRUE, isrc |-> collector_get_majority(coll)]
    /\ UNCHANGED coll
    /\ UNCHANGED notColl

NextColl == CollAdd \/ CollMajority

SpecColl == InitColl /\ [][NextColl]_vars

-----------------------------------------------------------------------------
(* Specification of isrc_read_disc *)

InitIsrc ==
    /\ platform \in {"linux", "macos"}
    /\ \/ disc \in CoreDiscs /\ toc \in Tocs
       \/ disc \in Discs /\ toc \in CoreTocs
    /\ ipc = "start"
    /\ idx = 0
    /\ probes = <<>>
    /\ hasIsrc = FALSE
    /\ found = 0
    /\ iret = "none"
    /\ sess = 0
    /\ qlog = {}
    /\ decided = [i \in 1..toc.track_count |-> EmptyCollector]
    /\ mode = "none"
    /\ treads = [i \in 1..toc.track_count |-> <<>>]
    /\ IdleColl /\ IdleOpen /\ IdleDisc /\ IdleToc /\ IdleCdt /\ IdleRtoc

NextIsrc ==
    \/ IsrcOpen
    \/ BatchTest
    \/ FallbackStep
    \/ FallbackDone
    \/ SelectPhase
    \/ ProbeStep
    \/ ProbeDone
    \/ RemainingStep
    \/ FullStep
    \/ ScanDone

SpecIsrc == InitIsrc /\ [][NextIsrc]_vars

-----------------------------------------------------------------------------
(* scsi_open and scsi_close on macOS (scsi_macos.c) *)

\* the initial values of the three retry counters of scsi_open
retries == 20
initial_retries == 10
exclusive_retries == 20

\* calloc(1, sizeof(*dev)): every field zero
ZeroDev ==
    [media_service |-> "null", authoring_service |-> "null",
     plugIn |-> FALSE, mmc |-> FALSE, taskIf |-> FALSE,
     da_session |-> FALSE, da_disk |-> FALSE,
     da_claimed |-> FALSE, exclusive_access |-> FALSE]

\* the answers of ObtainExclusiveAccess
IOReturns == {"kIOReturnSuccess", "kIOReturnBusy", "kIOReturnNotReady", "kIOReturnExclusiveAccess"}

\* the test of the answer taken as "any failure"
IsTransient_AnyFailure(ioret) == ioret # "kIOReturnSuccess"

\* the answers after which both loops wait and retry
IsTransient(ioret) == ioret = "kIOReturnBusy" \/ ioret = "kIOReturnNotReady"

\* history of the two loops before the first call: the calls made in each
\* loop, the answer of the last call and whether usleep(500000) followed it,
\* the answers that a further call of the same loop followed, whether a call
\* followed another without the wait, and whether a call followed an answer
\* that was neither success nor transient
NoAttempts ==
    [direct |-> 0, claimed |-> 0, loop |-> "none", last |-> "none", waited |-> FALSE,
     retried |-> {}, unwaited |-> FALSE, afterOther |-> FALSE]

\* the history after one ObtainExclusiveAccess call in a loop: both loops call
\* usleep(500000) after a transient answer and after no other
Attempt(h, loop, ioret) ==
    [h EXCEPT ![loop] = @ + 1,
              !.loop = loop,
              !.last = ioret,
              !.waited = IsTransient(ioret),
              !.retried = IF h.loop = loop THEN @ \cup {h.last} ELSE @,
              !.unwaited = @ \/ (h.loop = loop /\ ~h.waited),
              !.afterOther = @ \/ (h.last \notin {"none", "kIOReturnSuccess"}
                                    /\ ~IsTransient(h.last))]

Acq(log, h) == Append(log, [op |-> "acq", h |-> h])

Rel(log, hs) == log \o [i \in 1..Len(hs) |-> [op |-> "rel", h |-> hs[i]]]

\* the tail every failure return of scsi_open shares: the authoring reference
\* is released only when it is another object than the media service
ReleaseServices(d) ==
    (IF d.authoring_service # d.media_service THEN <<"authoring">> ELSE <<>>)
        \o <<"media">>

\* a failure return of scsi_open: release hs, free(dev), return NULL
OpenFail(hs) ==
    /\ olog' = Rel(olog, hs)
    /\ opc' = "failed"
    /\ oret' = "NULL"
    /\ tries' = 0

\* the lookup loop of the media service: IOBSDNameMatching and
\* IOServiceGetMatchingService, at most `retries` times
FindMedia ==
    /\ opc = "media" /\ tries > 0
    /\ \E r \in {"found", "notfound", "nomatching"} :
         CASE r = "nomatching" -> OpenFail(<<>>) /\ UNCHANGED dev
           [] r = "found" ->
                /\ dev' = [dev EXCEPT !.media_service = "M"]
                /\ olog' = Acq(olog, "media")
                /\ opc' = "authoring"
                /\ tries' = 0
                /\ UNCHANGED oret
           [] OTHER ->
                IF tries - 1 > 0
                THEN tries' = tries - 1 /\ UNCHANGED <<dev, olog, opc, oret>>
                ELSE OpenFail(<<>>) /\ UNCHANGED dev
    /\ UNCHANGED excl
    /\ UNCHANGED notOpen

\* find_authoring_service: retains the start object and returns it when it
\* conforms itself ("same"), returns a retained ancestor ("other"), or releases
\* what it walked over and returns IO_OBJECT_NULL ("none")
find_authoring_service(where) ==
    CASE where = "same" -> "M"
      [] where = "other" -> "A"
      [] OTHER -> "null"

FindAuthoring ==
    /\ opc = "authoring"
    /\ \E where \in {"same", "other", "none"} :
         \E a \in {find_authoring_service(where)} :
           IF a = "null"
           THEN OpenFail(<<"media">>) /\ UNCHANGED dev
           ELSE /\ dev' = [dev EXCEPT !.authoring_service = a]
                /\ olog' = Acq(olog, "authoring")
                /\ opc' = "plugIn"
                /\ UNCHANGED <<tries, oret>>
    /\ UNCHANGED excl
    /\ UNCHANGED notOpen

\* IOCreatePlugInInterfaceForService
CreatePlugIn ==
    /\ opc = "plugIn"
    /\ \E ok \in BOOLEAN :
         IF ok
         THEN /\ dev' = [dev EXCEPT !.plugIn = TRUE]
              /\ olog' = Acq(olog, "plugIn")
              /\ opc' = "mmc"
              /\ UNCHANGED <<tries, oret>>
         ELSE OpenFail(ReleaseServices(dev)) /\ UNCHANGED dev
    /\ UNCHANGED excl
    /\ UNCHANGED notOpen

\* QueryInterface for the MMC device interface
QueryMmc ==
    /\ opc = "mmc"
    /\ \E ok \in BOOLEAN :
         IF ok
         THEN /\ dev' = [dev EXCEPT !.mmc = TRUE]
              /\ olog' = Acq(olog, "mmc")
              /\ opc' = "taskIf"
              /\ UNCHANGED <<tries, oret>>
         ELSE OpenFail(<<"plugIn">> \o ReleaseServices(dev)) /\ UNCHANGED dev
    /\ UNCHANGED excl
    /\ UNCHANGED notOpen

\* GetSCSITaskDeviceInterface; on success the first exclusive loop starts
GetTaskIf ==
    /\ opc = "taskIf"
    /\ \E ok \in BOOLEAN :
         IF ok
         THEN /\ dev' = [dev EXCEPT !.taskIf = TRUE]
              /\ olog' = Acq(olog, "taskIf")
              /\ opc' = "direct"
              /\ tries' = initial_retries
              /\ UNCHANGED oret
         ELSE OpenFail(<<"mmc", "plugIn">> \o ReleaseServices(dev)) /\ UNCHANGED dev
    /\ UNCHANGED excl
    /\ UNCHANGED notOpen

\* the first ObtainExclusiveAccess loop, without Disk Arbitration: success
\* returns dev at once; busy or not ready retries while attempts remain; any
\* other answer, or the last attempt, goes on to Disk Arbitration
DirectExclusive ==
    /\ opc = "direct" /\ tries > 0
    /\ \E ioret \in IOReturns :
         /\ excl' = Attempt(excl, "direct", ioret)
         /\ CASE ioret = "kIOReturnSuccess" ->
                /\ dev' = [dev EXCEPT !.exclusive_access = TRUE]
                /\ olog' = Acq(olog, "exclusive")
                /\ opc' = "open"
                /\ oret' = "dev"
                /\ tries' = 0
           [] IsTransient(ioret) /\ tries - 1 > 0 ->
                tries' = tries - 1 /\ UNCHANGED <<dev, olog, opc, oret>>
           [] OTHER ->
                opc' = "da_session" /\ tries' = 0 /\ UNCHANGED <<dev, olog, oret>>
    /\ UNCHANGED notOpen

\* what every failure return after the task interface releases after the
\* Disk Arbitration objects
ReleaseInterfaces(d) == <<"taskIf", "mmc", "plugIn">> \o ReleaseServices(d)

\* DASessionCreate and DASessionScheduleWithRunLoop
CreateDASession ==
    /\ opc = "da_session"
    /\ \E ok \in BOOLEAN :
         IF ok
         THEN /\ dev' = [dev EXCEPT !.da_session = TRUE]
              /\ olog' = Acq(olog, "da_session")
              /\ opc' = "da_disk"
              /\ UNCHANGED <<tries, oret>>
         ELSE OpenFail(ReleaseInterfaces(dev)) /\ UNCHANGED dev
    /\ UNCHANGED excl
    /\ UNCHANGED notOpen

\* DADiskCreateFromBSDName
CreateDADisk ==
    /\ opc = "da_disk"
    /\ \E ok \in BOOLEAN :
         IF ok
         THEN /\ dev' = [dev EXCEPT !.da_disk = TRUE]
              /\ olog' = Acq(olog, "da_disk")
              /\ opc' = "unmount"
              /\ UNCHANGED <<tries, oret>>
         ELSE OpenFail(<<"da_session">> \o ReleaseInterfaces(dev)) /\ UNCHANGED dev
    /\ UNCHANGED excl
    /\ UNCHANGED notOpen

\* DADiskUnmount and the wait for its callback: da_unmount_result is 1
\* (unmounted), -1 (dissenter) or still 0 when the wait times out
Unmount ==
    /\ opc = "unmount"
    /\ \E da_unmount_result \in {1, -1, 0} :
         IF da_unmount_result = 1
         THEN opc' = "claim" /\ UNCHANGED <<dev, olog, tries, oret>>
         ELSE OpenFail(<<"da_disk", "da_session">> \o ReleaseInterfaces(dev))
              /\ UNCHANGED dev
    /\ UNCHANGED excl
    /\ UNCHANGED notOpen

\* DADiskClaim and the wait for its callback; on success da_claimed is set and
\* the second exclusive loop starts
Claim ==
    /\ opc = "claim"
    /\ \E da_claim_result \in {1, -1, 0} :
         IF da_claim_result = 1
         THEN /\ dev' = [dev EXCEPT !.da_claimed = TRUE]
              /\ olog' = Acq(olog, "claim")
              /\ opc' = "claimed"
              /\ tries' = exclusive_retries
              /\ UNCHANGED oret
         ELSE OpenFail(<<"da_disk", "da_session">> \o ReleaseInterfaces(dev))
              /\ UNCHANGED dev
    /\ UNCHANGED excl
    /\ UNCHANGED notOpen

\* the second ObtainExclusiveAccess loop, with the disk claimed: success
\* returns dev; busy or not ready retries while attempts remain; any other
\* answer, or the last attempt, is the failure return
ClaimedExclusive ==
    /\ opc = "claimed" /\ tries > 0
    /\ \E ioret \in IOReturns :
         /\ excl' = Attempt(excl, "claimed", ioret)
         /\ CASE ioret = "kIOReturnSuccess" ->
                /\ dev' = [dev EXCEPT !.exclusive_access = TRUE]
                /\ olog' = Acq(olog, "exclusive")
                /\ opc' = "open"
                /\ oret' = "dev"
                /\ tries' = 0
           [] IsTransient(ioret) /\ tries - 1 > 0 ->
                tries' = tries - 1 /\ UNCHANGED <<dev, olog, opc, oret>>
           [] OTHER ->
                /\ OpenFail(<<"claim", "da_disk", "da_session">> \o ReleaseInterfaces(dev))
                /\ UNCHANGED dev
    /\ UNCHANGED notOpen

\* the handles scsi_close releases, in its order
CloseList(d) ==
    (IF d.exclusive_access /\ d.taskIf THEN <<"exclusive">> ELSE <<>>)
    \o (IF d.da_claimed /\ d.da_disk THEN <<"claim">> ELSE <<>>)
    \o (IF d.da_disk THEN <<"da_disk">> ELSE <<>>)
    \o (IF d.da_session THEN <<"da_session">> ELSE <<>>)
    \o (IF d.taskIf THEN <<"taskIf">> ELSE <<>>)
    \o (IF d.mmc THEN <<"mmc">> ELSE <<>>)
    \o (IF d.plugIn THEN <<"plugIn">> ELSE <<>>)
    \o (IF d.authoring_service # d.media_service /\ d.authoring_service # "null"
        THEN <<"authoring">> ELSE <<>>)
    \o (IF d.media_service # "null" THEN <<"media">> ELSE <<>>)

\* scsi_close on the device scsi_open returned
scsi_close ==
    /\ opc = "open"
    /\ olog' = Rel(olog, CloseList(dev))
    /\ opc' = "closed"
    /\ UNCHANGED <<dev, tries, oret>>
    /\ UNCHANGED excl
    /\ UNCHANGED notOpen

InitOpen ==
    /\ opc = "media"
    /\ dev = ZeroDev
    /\ tries = retries
    /\ oret = "none"
    /\ olog = <<>>
    /\ excl = NoAttempts
    /\ IdleColl /\ IdleIsrc /\ IdleDisc /\ IdleToc /\ IdleCdt /\ IdleRtoc

NextOpen ==
    \/ FindMedia
    \/ FindAuthoring
    \/ CreatePlugIn
    \/ QueryMmc
    \/ GetTaskIf
    \/ DirectExclusive
    \/ CreateDASession
    \/ CreateDADisk
    \/ Unmount
    \/ Claim
    \/ ClaimedExclusive
    \/ scsi_close

SpecOpen == InitOpen /\ [][NextOpen]_vars

\* scsi_open is straight-line code with two bounded loops run by one thread:
\* whenever a step of it is enabled the thread takes a step
SpecOpenLive == InitOpen /\ [][NextOpen]_vars /\ WF_vars(NextOpen)

-----------------------------------------------------------------------------
(* device_read_disc (device.c): the phases of one acquisition *)

READ_MCN == 1
READ_ISRC == 2
READ_CDTEXT == 4
EX_SOFTWARE == 70
EX_IOERR == 74

\* the most Q-subchannel reads of the ISRC phase the model follows
MaxQReads == 3

\* flags & bit
HasFlag(fl, bit) == (fl \div bit) % 2 = 1

\* the phases with the CD-Text read moved before the ISRC scan
PhaseAfter_CdtextFirst(ph, fl) ==
    IF ph = "toc" /\ HasFlag(fl, READ_MCN) THEN "mcn"
    ELSE IF ph \in {"toc", "mcn"} /\ HasFlag(fl, READ_CDTEXT) THEN "cdtext"
    ELSE IF ph \in {"toc", "mcn", "cdtext"} /\ HasFlag(fl, READ_ISRC) THEN "isrc"
    ELSE "return"

\* the phase device_read_disc goes to after phase ph: MCN, ISRC and CD-Text
\* in this order, each only when its flag is set, then the return
PhaseAfter(ph, fl) ==
    IF ph = "toc" /\ HasFlag(fl, READ_MCN) THEN "mcn"
    ELSE IF ph \in {"toc", "mcn"} /\ HasFlag(fl, READ_ISRC) THEN "isrc"
    ELSE IF ph \in {"toc", "mcn", "isrc"} /\ HasFlag(fl, READ_CDTEXT) THEN "cdtext"
    ELSE "return"

\* phase ph is over: go to the next one, or return 0 after the last
Advance(ph) ==
    \E n \in {PhaseAfter(ph, flags)} :
        IF n = "return"
        THEN dpc' = "done" /\ dret' = 0
        ELSE dpc' = n /\ UNCHANGED dret

\* device_read_toc failed: device_read_disc returns its value at once
ReturnEarly(ret) == dpc' = "done" /\ dret' = ret

Event(ph, op, via, ex) == [ph |-> ph, op |-> op, via |-> via, excl |-> ex]

\* how the Full TOC and the CD-Text are read: SCSI on Linux, a BSD ioctl on
\* a plain file descriptor on macOS
RawVia == IF dplat = "macos" THEN "ioctl" ELSE "scsi"

\* the open of the device, or the command just sent, failed
Failure(ph, via) == Event(ph, "fail", via, dexcl)

\* the history of a command: sent, and failed when the drive or the
\* transport did not carry it out
CmdEvents(ph, via, ok) ==
    IF ok THEN <<Event(ph, "cmd", via, dexcl)>>
    ELSE <<Event(ph, "cmd", via, dexcl), Failure(ph, via)>>

\* a command goes to the drive through the session that is open; whether it
\* fails or not, the caller goes on to next
SendCmd(ph, via, next) ==
    /\ \E ok \in BOOLEAN : dlog' = dlog \o CmdEvents(ph, via, ok)
    /\ dpc' = next
    /\ UNCHANGED <<dplat, flags, dsess, dexcl, qreads, dret>>

\* device_read_toc: discid_new and the open libdiscid's discid_read_sparse makes
ReadTocOpen ==
    /\ dpc = "toc"
    /\ \E r \in {"nomem", "fail", "ok"} :
         CASE r = "nomem" ->
                ReturnEarly(EX_SOFTWARE) /\ UNCHANGED <<dsess, dlog>>
           [] r = "fail" ->
                /\ ReturnEarly(EX_IOERR)
                /\ dlog' = Append(dlog, Failure("toc", "libdiscid"))
                /\ UNCHANGED dsess
           [] OTHER ->
                /\ dsess' = dsess + 1
                /\ dlog' = Append(dlog, Event("toc", "open", "libdiscid", FALSE))
                /\ dpc' = "toc_cmd"
                /\ UNCHANGED dret
    /\ UNCHANGED <<dplat, flags, dexcl, qreads>>
    /\ UNCHANGED notDisc

\* the TOC (and MCN) commands of discid_read_sparse
ReadTocCmd ==
    /\ dpc = "toc_cmd"
    /\ \E result \in BOOLEAN :
         /\ dlog' = dlog \o CmdEvents("toc", "libdiscid", result)
         /\ dpc' = IF result THEN "toc_close" ELSE "toc_fail"
    /\ UNCHANGED <<dplat, flags, dsess, dexcl, qreads, dret>>
    /\ UNCHANGED notDisc

\* discid_read_sparse closes the device; its failure is the EX_IOERR return
ReadTocClose ==
    /\ dpc \in {"toc_close", "toc_fail"}
    /\ dsess' = dsess - 1
    /\ dlog' = Append(dlog, Event("toc", "close", "libdiscid", dexcl))
    /\ IF dpc = "toc_fail"
       THEN ReturnEarly(EX_IOERR)
       ELSE dpc' = "full_toc" /\ UNCHANGED dret
    /\ UNCHANGED <<dplat, flags, dexcl, qreads>>
    /\ UNCHANGED notDisc

\* device_read_toc: scsi_open on Linux, open() in read_full_toc_ioctl on
\* macOS; when it fails the Full TOC is skipped and device_read_toc returns 0
FullTocOpen ==
    /\ dpc = "full_toc"
    /\ \E ok \in BOOLEAN :
         IF ok
         THEN /\ dsess' = dsess + 1
              /\ dlog' = Append(dlog, Event("toc", "open", RawVia, FALSE))
              /\ dpc' = "full_toc_cmd"
              /\ UNCHANGED dret
         ELSE /\ Advance("toc")
              /\ dlog' = Append(dlog, Failure("toc", RawVia))
              /\ UNCHANGED dsess
    /\ UNCHANGED <<dplat, flags, dexcl, qreads>>
    /\ UNCHANGED notDisc

\* scsi_read_full_toc, or ioctl(DKIOCCDREADTOC)
FullTocCmd ==
    /\ dpc = "full_toc_cmd"
    /\ SendCmd("toc", RawVia, "full_toc_close")
    /\ UNCHANGED notDisc

\* scsi_close, or close(fd); device_read_toc returns 0
FullTocClose ==
    /\ dpc = "full_toc_close"
    /\ dsess' = dsess - 1
    /\ dlog' = Append(dlog, Event("toc", "close", RawVia, dexcl))
    /\ Advance("toc")
    /\ UNCHANGED <<dplat, flags, dexcl, qreads>>
    /\ UNCHANGED notDisc

\* device_read_mcn: discid_new and the open of discid_read_sparse; its
\* failure leaves the MCN empty and the acquisition goes on
ReadMcnOpen ==
    /\ dpc = "mcn"
    /\ \E r \in {"nomem", "fail", "ok"} :
         IF r = "ok"
         THEN /\ dsess' = dsess + 1
              /\ dlog' = Append(dlog, Event("mcn", "open", "libdiscid", FALSE))
              /\ dpc' = "mcn_cmd"
              /\ UNCHANGED dret
         ELSE /\ Advance("mcn")
              /\ dlog' = IF r = "fail" THEN Append(dlog, Failure("mcn", "libdiscid"))
                         ELSE dlog
              /\ UNCHANGED dsess
    /\ UNCHANGED <<dplat, flags, dexcl, qreads>>
    /\ UNCHANGED notDisc

ReadMcnCmd ==
    /\ dpc = "mcn_cmd"
    /\ SendCmd("mcn", "libdiscid", "mcn_close")
    /\ UNCHANGED notDisc

ReadMcnClose ==
    /\ dpc = "mcn_close"
    /\ dsess' = dsess - 1
    /\ dlog' = Append(dlog, Event("mcn", "close", "libdiscid", dexcl))
    /\ Advance("mcn")
    /\ UNCHANGED <<dplat, flags, dexcl, qreads>>
    /\ UNCHANGED notDisc

\* what scsi_open obtains: exclusive access on macOS, a plain O_RDONLY |
\* O_NONBLOCK descriptor on Linux
OpenIsExclusive(pl) == pl = "macos"

\* device_read_isrc: the scsi_open of isrc_read_disc; when it fails
\* isrc_read_disc returns -1 and device_read_disc goes on
ReadIsrcOpen ==
    /\ dpc = "isrc"
    /\ \E ok \in BOOLEAN :
         IF ok
         THEN /\ dsess' = dsess + 1
              /\ dexcl' = OpenIsExclusive(dplat)
              /\ dlog' = Append(dlog, Event("isrc", "open", "scsi", OpenIsExclusive(dplat)))
              /\ dpc' = "isrc_cmd"
              /\ UNCHANGED dret
         ELSE /\ Advance("isrc")
              /\ dlog' = Append(dlog, Failure("isrc", "scsi"))
              /\ UNCHANGED <<dsess, dexcl>>
    /\ qreads' = 0
    /\ UNCHANGED <<dplat, flags>>
    /\ UNCHANGED notDisc

\* one Q-subchannel read of isrc_read_disc
ReadIsrcQ ==
    /\ dpc = "isrc_cmd"
    /\ qreads < MaxQReads
    /\ \E ok \in BOOLEAN : dlog' = dlog \o CmdEvents("isrc", "scsi", ok)
    /\ qreads' = qreads + 1
    /\ UNCHANGED <<dplat, flags, dpc, dsess, dexcl, dret>>
    /\ UNCHANGED notDisc

\* the scsi_close of isrc_read_disc
ReadIsrcClose ==
    /\ dpc = "isrc_cmd"
    /\ dsess' = dsess - 1
    /\ dexcl' = FALSE
    /\ dlog' = Append(dlog, Event("isrc", "close", "scsi", dexcl))
    /\ Advance("isrc")
    /\ UNCHANGED <<dplat, flags, qreads>>
    /\ UNCHANGED notDisc

\* device_read_cdtext: scsi_open on Linux, open() in read_cdtext_ioctl on
\* macOS; a failure is "no CD-Text"
ReadCdtextOpen ==
    /\ dpc = "cdtext"
    /\ \E ok \in BOOLEAN :
         IF ok
         THEN /\ dsess' = dsess + 1
              /\ dlog' = Append(dlog, Event("cdtext", "open", RawVia, FALSE))
              /\ dpc' = "cdtext_cmd"
              /\ UNCHANGED dret
         ELSE Advance("cdtext") /\ UNCHANGED <<dsess, dlog>>
    /\ UNCHANGED <<dplat, flags, dexcl, qreads>>
    /\ UNCHANGED notDisc

\* scsi_read_cdtext_raw, or ioctl(DKIOCCDREADTOC) with format 5
ReadCdtextCmd ==
    /\ dpc = "cdtext_cmd"
    /\ SendCmd("cdtext", RawVia, "cdtext_close")
    /\ UNCHANGED notDisc

\* scsi_close or close(fd), on the success and on the failure of the read;
\* device_read_disc returns 0
ReadCdtextClose ==
    /\ dpc = "cdtext_close"
    /\ dsess' = dsess - 1
    /\ dlog' = Append(dlog, Event("cdtext", "close", RawVia, dexcl))
    /\ Advance("cdtext")
    /\ UNCHANGED <<dplat, flags, dexcl, qreads>>
    /\ UNCHANGED notDisc

InitDisc ==
    /\ dplat \in {"linux", "macos"}
    /\ flags \in 0..(READ_MCN + READ_ISRC + READ_CDTEXT)
    /\ dpc = "toc"
    /\ dsess = 0
    /\ dexcl = FALSE
    /\ qreads = 0
    /\ dret = "none"
    /\ dlog = <<>>
    /\ IdleColl /\ IdleIsrc /\ IdleOpen /\ IdleToc /\ IdleCdt /\ IdleRtoc

NextDisc ==
    \/ ReadTocOpen
    \/ ReadTocCmd
    \/ ReadTocClose
    \/ FullTocOpen
    \/ FullTocCmd
    \/ FullTocClose
    \/ ReadMcnOpen
    \/ ReadMcnCmd
    \/ ReadMcnClose
    \/ ReadIsrcOpen
    \/ ReadIsrcQ
    \/ ReadIsrcClose
    \/ ReadCdtextOpen
    \/ ReadCdtextCmd
    \/ ReadCdtextClose

SpecDisc == InitDisc /\ [][NextDisc]_vars

-----------------------------------------------------------------------------
(* TOC text: toc_parse and toc_format_* (toc.c) *)

MAX_TRACKS == 99
FRAMES_PER_SECOND == 75
PREGAP_FRAMES == 150
EX_DATAERR == 65

\* the digits snprintf("%d") writes for n >= 0
RECURSIVE DecDigits(_)
DecDigits(n) ==
    IF n < 10 THEN <<48 + n>> ELSE DecDigits(n \div 10) \o <<48 + (n % 10)>>

\* snprintf("%d", n)
FormatInt(n) == IF n < 0 THEN <<45>> \o DecDigits(-n) ELSE DecDigits(n)

\* snprintf(" %d", n) for each n of a sequence, appended in order
RECURSIVE FormatInts(_)
FormatInts(ns) ==
    IF ns = <<>> THEN <<>>
    ELSE <<32>> \o FormatInt(Head(ns)) \o FormatInts(Tail(ns))

\* the delimiters of strtok_r(str, " \t\n\r", ...)
Delims == {32, 9, 10, 13}

\* the tokens strtok_r returns, in order
RECURSIVE Tokens(_, _, _)
Tokens(s, i, cur) ==
    IF i > Len(s)
    THEN IF cur = <<>> THEN <<>> ELSE <<cur>>
    ELSE IF s[i] \in Delims
         THEN IF cur = <<>> THEN Tokens(s, i + 1, <<>>)
              ELSE <<cur>> \o Tokens(s, i + 1, <<>>)
         ELSE Tokens(s, i + 1, Append(cur, s[i]))

\* value of a sequence of decimal digits
RECURSIVE DigitsValue(_, _)
DigitsValue(ds, acc) ==
    IF ds = <<>> THEN acc
    ELSE DigitsValue(Tail(ds), acc * 10 + (Head(ds) - 48))

\* strtol(token, &endptr, 10) on a token of strtok_r: an optional sign, then
\* the longest run of digits; consumed is TRUE when *endptr == '\0', which
\* needs at least one digit and nothing after the digits
strtol(token) ==
    LET signed == token # <<>> /\ token[1] \in {43, 45}
        body   == IF signed THEN Tail(token) ELSE token
        alldig == body # <<>> /\ \A i \in 1..Len(body) : isdigit(body[i])
        mag    == IF alldig THEN DigitsValue(body, 0) ELSE 0
    IN  [consumed |-> alldig,
         val |-> IF signed /\ token[1] = 45 THEN -mag ELSE mag]

\* parse_integers: the values of the first max_vals tokens, count -1 when one
\* of them is not a number; the texts of the model hold no value outside the
\* range of int32_t, so the cast of strtol's long changes nothing
parse_integers(input, max_vals) ==
    LET toks == Tokens(input, 1, <<>>)
        n    == Min2(Len(toks), max_vals)
        conv == [i \in 1..n |-> strtol(toks[i])]
    IN  IF \E i \in 1..n : ~conv[i].consumed
        THEN [count |-> -1, vals |-> <<>>]
        ELSE [count |-> n, vals |-> [i \in 1..n |-> conv[i].val]]

\* a parser's failure return; the toc_t is then not used by the caller
ParseFail == [ret |-> EX_DATAERR, toc |-> "none"]

\* the "offset <= previous offset" check in the track loop of every parser
Increasing(offs) == \A i \in 2..Len(offs) : offs[i] > offs[i - 1]

\* the track array a parser fills: numbers from first on, session 1, and the
\* lengths computed from the next offset or the leadout
ParsedTracks(first, offs, types, leadout) ==
    [i \in 1..Len(offs) |->
        [number  |-> first + i - 1,
         session |-> 1,
         type    |-> types[i],
         offset  |-> offs[i],
         length  |-> IF i < Len(offs) THEN offs[i + 1] - offs[i]
                     ELSE leadout - offs[i]]]

AllAudio(n) == [i \in 1..n |-> "audio"]

\* toc_init, then the fields one parser sets
ParsedToc(first, last, offs, types, audio, data, leadout) ==
    [first_track   |-> first,
     last_track    |-> last,
     last_session  |-> 1,
     track_count   |-> Len(offs),
     audio_count   |-> audio,
     data_count    |-> data,
     leadout       |-> leadout,
     audio_leadout |-> leadout,
     tracks        |-> ParsedTracks(first, offs, types, leadout)]

\* toc_parse_raw: first last offset1...offsetN leadout, frames with pregap
toc_parse_raw(input) ==
    LET p     == parse_integers(input, MAX_TRACKS + 4)
        count == p.count
        vals  == p.vals
    IN  IF count < 0 \/ count < 4 THEN ParseFail
        ELSE LET first == vals[1]
                 last  == vals[2]
                 expected_offsets == last - first + 1
             IN  IF \/ first < 1 \/ first > 99
                    \/ last < first \/ last > 99
                    \/ count # 2 + expected_offsets + 1
                    \/ \E i \in 1..count : vals[i] < 0
                 THEN ParseFail
                 ELSE LET leadout == vals[count] - PREGAP_FRAMES
                          offs == [i \in 1..expected_offsets |->
                                      vals[2 + i] - PREGAP_FRAMES]
                      IN  IF ~Increasing(offs) \/ leadout <= offs[expected_offsets]
                          THEN ParseFail
                          ELSE [ret |-> 0,
                                toc |-> ParsedToc(first, last, offs,
                                            AllAudio(expected_offsets),
                                            expected_offsets, 0, leadout)]

\* toc_parse_musicbrainz: first last leadout offset1...offsetN
toc_parse_musicbrainz(input) ==
    LET p     == parse_integers(input, MAX_TRACKS + 4)
        count == p.count
        vals  == p.vals
    IN  IF count < 0 \/ count < 4 THEN ParseFail
        ELSE LET first == vals[1]
                 last  == vals[2]
                 expected_offsets == last - first + 1
             IN  IF \/ first < 1 \/ first > 99
                    \/ last < first \/ last > 99
                    \/ count # 3 + expected_offsets
                    \/ \E i \in 1..count : vals[i] < 0
                 THEN ParseFail
                 ELSE LET leadout == vals[3] - PREGAP_FRAMES
                          offs == [i \in 1..expected_offsets |->
                                      vals[3 + i] - PREGAP_FRAMES]
                      IN  IF ~Increasing(offs) \/ leadout <= offs[expected_offsets]
                          THEN ParseFail
                          ELSE [ret |-> 0,
                                toc |-> ParsedToc(first, last, offs,
                                            AllAudio(expected_offsets),
                                            expected_offsets, 0, leadout)]

\* the track types toc_parse_accuraterip derives from the three counts
AccurateRipType(track_num, track_count, audio_count, first_audio) ==
    IF audio_count = track_count THEN "audio"
    ELSE IF first_audio > 1
         THEN (IF track_num < first_audio THEN "data" ELSE "audio")
         ELSE (IF track_num <= audio_count THEN "audio" ELSE "data")

\* toc_parse_accuraterip: count audio first offset1...offsetN leadout, raw LBA
toc_parse_accuraterip(input) ==
    LET p     == parse_integers(input, MAX_TRACKS + 5)
        count == p.count
        vals  == p.vals
    IN  IF count < 0 \/ count < 5 THEN ParseFail
        ELSE LET track_count == vals[1]
                 audio_count == vals[2]
                 first_audio == vals[3]
             IN  IF \/ track_count < 1 \/ track_count > 99
                    \/ audio_count < 0 \/ audio_count > track_count
                    \/ first_audio < 1 \/ first_audio > 99
                    \/ \E i \in 1..count : vals[i] < 0
                    \/ count # 3 + track_count + 1
                 THEN ParseFail
                 ELSE LET leadout == vals[3 + track_count + 1]
                          offs == [i \in 1..track_count |-> vals[3 + i]]
                          types == [i \in 1..track_count |->
                                       AccurateRipType(i, track_count, audio_count, first_audio)]
                      IN  IF ~Increasing(offs) \/ leadout <= offs[track_count]
                          THEN ParseFail
                          ELSE [ret |-> 0,
                                toc |-> ParsedToc(1, track_count, offs, types,
                                            audio_count, track_count - audio_count,
                                            leadout)]

\* toc_parse_freedb: count offset1...offsetN total_seconds; the leadout is
\* total_seconds * 75 - 150 and is not compared with the last offset
toc_parse_freedb(input) ==
    LET p     == parse_integers(input, MAX_TRACKS + 3)
        count == p.count
        vals  == p.vals
    IN  IF count < 0 \/ count < 3 THEN ParseFail
        ELSE LET track_count == vals[1]
             IN  IF \/ track_count < 1 \/ track_count > 99
                    \/ \E i \in 1..count : vals[i] < 0
                    \/ count # 1 + track_count + 1
                 THEN ParseFail
                 ELSE LET total_seconds == vals[1 + track_count + 1]
                          offs == [i \in 1..track_count |->
                                      vals[1 + i] - PREGAP_FRAMES]
                          leadout == total_seconds * FRAMES_PER_SECOND - PREGAP_FRAMES
                      IN  IF ~Increasing(offs)
                          THEN ParseFail
                          ELSE [ret |-> 0,
                                toc |-> ParsedToc(1, track_count, offs,
                                            AllAudio(track_count),
                                            track_count, 0, leadout)]

\* toc_parse: the switch on the format
toc_parse(input, fmt) ==
    CASE fmt = "raw" -> toc_parse_raw(input)
      [] fmt = "musicbrainz" -> toc_parse_musicbrainz(input)
      [] fmt = "accuraterip" -> toc_parse_accuraterip(input)
      [] fmt = "freedb" -> toc_parse_freedb(input)
      [] OTHER -> ParseFail

\* toc_get_first_audio_track: number of the first audio track, 0 when none
toc_get_first_audio_track(t) ==
    LET audio == {i \in 1..t.track_count : t.tracks[i].type = "audio"}
    IN  IF audio = {} THEN 0
        ELSE t.tracks[CHOOSE i \in audio : \A j \in audio : i <= j].number

\* toc_get_last_audio_track: number of the last audio track, 0 when none
toc_get_last_audio_track(t) ==
    LET audio == {i \in 1..t.track_count : t.tracks[i].type = "audio"}
    IN  IF audio = {} THEN 0
        ELSE t.tracks[CHOOSE i \in audio : \A j \in audio : i >= j].number

\* the raw text with the offsets and the leadout written as raw LBA
toc_format_raw_nopregap(t) ==
    FormatInt(t.first_track) \o <<32>> \o FormatInt(t.last_track)
        \o FormatInts([i \in 1..t.track_count |-> t.tracks[i].offset])
        \o FormatInts(<<t.leadout>>)

\* toc_format_raw: "first last offset1...offsetN leadout", all with pregap
toc_format_raw(t) ==
    FormatInt(t.first_track) \o <<32>> \o FormatInt(t.last_track)
        \o FormatInts([i \in 1..t.track_count |-> t.tracks[i].offset + PREGAP_FRAMES])
        \o FormatInts(<<t.leadout + PREGAP_FRAMES>>)

\* toc_format_musicbrainz: "first last leadout offset1...offsetN"; trailing
\* data tracks are left out and the audio leadout is written in their place
toc_format_musicbrainz(t) ==
    LET last_audio == toc_get_last_audio_track(t)
        is_enhanced_cd == last_audio > 0 /\ last_audio < t.last_track
        last_track == IF is_enhanced_cd THEN last_audio ELSE t.last_track
        leadout == IF is_enhanced_cd THEN t.audio_leadout ELSE t.leadout
        inrange == SelectSeq(t.tracks,
                       LAMBDA tr : tr.number >= t.first_track /\ tr.number <= last_track)
    IN  FormatInt(t.first_track) \o <<32>> \o FormatInt(last_track)
            \o <<32>> \o FormatInt(leadout + PREGAP_FRAMES)
            \o FormatInts([i \in 1..Len(inrange) |-> inrange[i].offset + PREGAP_FRAMES])

\* toc_format_accuraterip: "count audio first offset1...offsetN leadout", raw LBA
toc_format_accuraterip(t) ==
    LET fa == toc_get_first_audio_track(t)
        first_audio == IF fa = 0 THEN t.first_track ELSE fa
    IN  FormatInt(t.track_count) \o <<32>> \o FormatInt(t.audio_count)
            \o <<32>> \o FormatInt(first_audio)
            \o FormatInts([i \in 1..t.track_count |-> t.tracks[i].offset])
            \o FormatInts(<<t.leadout>>)

\* toc_format_freedb: "count offset1...offsetN total_seconds"
toc_format_freedb(t) ==
    LET total_seconds == (t.leadout + PREGAP_FRAMES) \div FRAMES_PER_SECOND
    IN  FormatInt(t.track_count)
            \o FormatInts([i \in 1..t.track_count |-> t.tracks[i].offset + PREGAP_FRAMES])
            \o FormatInts(<<total_seconds>>)

Formats == {"raw", "musicbrainz", "accuraterip", "freedb"}

\* output_raw_toc, output_musicbrainz_toc, output_accuraterip_toc,
\* output_freedb_toc: the text of a toc_t in one format
FormatRaw ==
    /\ tpc = "toc" /\ format = "raw"
    /\ text' = toc_format_raw(tocIn[1])
    /\ tpc' = "text"
    /\ UNCHANGED <<tocIn, format, parsed, detected, info>>
    /\ UNCHANGED notToc

FormatMusicBrainz ==
    /\ tpc = "toc" /\ format = "musicbrainz"
    /\ text' = toc_format_musicbrainz(tocIn[1])
    /\ tpc' = "text"
    /\ UNCHANGED <<tocIn, format, parsed, detected, info>>
    /\ UNCHANGED notToc

FormatAccurateRip ==
    /\ tpc = "toc" /\ format = "accuraterip"
    /\ text' = toc_format_accuraterip(tocIn[1])
    /\ tpc' = "text"
    /\ UNCHANGED <<tocIn, format, parsed, detected, info>>
    /\ UNCHANGED notToc

FormatFreeDB ==
    /\ tpc = "toc" /\ format = "freedb"
    /\ text' = toc_format_freedb(tocIn[1])
    /\ tpc' = "text"
    /\ UNCHANGED <<tocIn, format, parsed, detected, info>>
    /\ UNCHANGED notToc

\* toc_parse on the text, in the format of the mode
Parse ==
    /\ tpc = "text"
    /\ parsed' = toc_parse(text, format)
    /\ tpc' = "parsed"
    /\ UNCHANGED <<tocIn, format, text, detected, info>>
    /\ UNCHANGED notToc

\* the ceiling of toc_detect_format on a value, in frames
MAX_CD_FRAMES == 450000

\* the test that never drops AccurateRip
ar_sanity_fails_never(total, audio_count, first_audio) == FALSE

\* the AccurateRip sanity test of the disambiguation against Raw/MB
ar_sanity_fails(total, audio_count, first_audio) ==
    \/ audio_count > total \/ first_audio > total \/ total < 1 \/ total > 99
    \/ audio_count < 0 \/ first_audio < 1

\* toc_detect_format: the dialect of a TOC text, "invalid" or "indeterminate";
\* V(k) is vals[k] of the source
toc_detect_format(input) ==
    LET p     == parse_integers(input, MAX_TRACKS + 10)
        count == p.count
        V(k)  == p.vals[k + 1]
        Ascending(from, to) == \A i \in from..to : V(i) > V(i - 1)
    IN  IF count < 0 \/ count < 3 THEN "invalid"
        ELSE IF \E i \in 0..(count - 1) : V(i) < 0 \/ V(i) > MAX_CD_FRAMES THEN "invalid"
        ELSE
        LET fd0 == V(0) + 2 = count
            ar0 == V(0) + 4 = count
            rm0 == /\ count >= 4 /\ V(1) >= V(0) /\ V(1) <= 99 /\ V(0) >= 1
                   /\ (V(1) - V(0) + 1) + 3 = count
            Count(a, b, c) == (IF a THEN 1 ELSE 0) + (IF b THEN 1 ELSE 0)
                                  + (IF c THEN 1 ELSE 0)
            multi == Count(fd0, ar0, rm0) > 1
            \* AR against Raw/MB: AR is dropped when its first three values
            \* fail its sanity test
            ar1 == IF multi /\ ar0 /\ rm0 /\ ar_sanity_fails(V(0), V(1), V(2))
                   THEN FALSE ELSE ar0
            \* FreeDB against Raw/MB: the last value as plausible seconds
            last_val    == V(count - 1)
            second_last == V(count - 2)
            diff        == last_val - (second_last \div FRAMES_PER_SECOND)
            seconds     == /\ last_val < 6000 /\ last_val > 0
                           /\ diff >= -2 /\ diff <= 100
            both == multi /\ fd0 /\ rm0
            fd1  == IF both THEN seconds ELSE fd0
            rm1  == IF both /\ seconds THEN FALSE ELSE rm0
        IN  IF Count(fd0, ar0, rm0) = 0 THEN "invalid"
            ELSE IF multi /\ Count(fd1, ar1, rm1) > 1 THEN "indeterminate"
            ELSE IF fd1
            THEN IF \/ V(0) < 1 \/ V(0) > 99
                    \/ V(count - 1) <= 0
                    \/ ~Ascending(2, count - 2)
                 THEN "invalid" ELSE "freedb"
            ELSE IF ar1
            THEN IF \/ V(0) < 1 \/ V(0) > 99
                    \/ V(1) < 0 \/ V(1) > V(0)
                    \/ V(2) < 1 \/ V(2) > V(0)
                    \/ ~Ascending(4, count - 2)
                    \/ V(count - 1) <= V(count - 2)
                 THEN "invalid" ELSE "accuraterip"
            ELSE IF rm1
            THEN IF \/ V(0) < 1 \/ V(0) > 99
                    \/ V(1) < V(0) \/ V(1) > 99
                 THEN "invalid"
                 ELSE IF V(2) > V(count - 1)
                 THEN IF ~Ascending(4, count - 1) \/ V(2) <= V(count - 1)
                      THEN "invalid" ELSE "musicbrainz"
                 ELSE IF ~Ascending(3, count - 2) \/ V(count - 1) <= V(count - 2)
                      THEN "invalid" ELSE "raw"
            ELSE "invalid"

\* toc_detect_format on the text
Detect ==
    /\ tpc = "text" /\ detected = "none"
    /\ detected' = toc_detect_format(text)
    /\ UNCHANGED <<tpc, tocIn, format, text, parsed, info>>
    /\ UNCHANGED notToc

\* C integer division, which truncates toward zero
CDiv(a, b) == IF a >= 0 THEN a \div b ELSE -((-a) \div b)

\* a uint32_t as its two 16-bit halves
U32(n) == [hi |-> (n \div 65536) % 65536, lo |-> n % 65536]

\* uint32_t addition
U32Add(a, b) ==
    [hi |-> (a.hi + b.hi + ((a.lo + b.lo) \div 65536)) % 65536,
     lo |-> (a.lo + b.lo) % 65536]

\* uint32_t product with a factor below 2^15 (an index, a count, 1 << 8)
U32Mul(a, k) ==
    [hi |-> (a.hi * k + ((a.lo * k) \div 65536)) % 65536,
     lo |-> (a.lo * k) % 65536]

\* a | b on two values below 2^16
RECURSIVE BitOr(_, _)
BitOr(a, b) ==
    IF a = 0 THEN b
    ELSE IF b = 0 THEN a
    ELSE (IF a % 2 = 1 \/ b % 2 = 1 THEN 1 ELSE 0) + 2 * BitOr(a \div 2, b \div 2)

\* uint32_t a | b
U32Or(a, b) == [hi |-> BitOr(a.hi, b.hi), lo |-> BitOr(a.lo, b.lo)]

\* the lower-case hexadecimal digits of n, width of them (snprintf "%0<width>x")
RECURSIVE HexDigits(_, _)
HexDigits(n, width) ==
    IF width = 0 THEN <<>>
    ELSE HexDigits(n \div 16, width - 1)
             \o <<IF n % 16 < 10 THEN 48 + (n % 16) ELSE 97 + (n % 16) - 10>>

\* snprintf("%08x", v) of a uint32_t
Hex8(v) == HexDigits(v.hi, 4) \o HexDigits(v.lo, 4)

\* digit_sum: the sum of the decimal digits of n, 0 when n <= 0
RECURSIVE digit_sum(_)
digit_sum(n) == IF n > 0 THEN (n % 10) + digit_sum(n \div 10) ELSE 0

RECURSIVE SumSeq(_)
SumSeq(q) == IF q = <<>> THEN 0 ELSE Head(q) + SumSeq(Tail(q))

\* the disc_id with the seconds taken from the raw LBA, without the pregap
freedb_disc_id_nopregap(t) ==
    LET n == SumSeq([i \in 1..t.track_count |->
                 digit_sum(CDiv(t.tracks[i].offset, FRAMES_PER_SECOND))])
        secs == CDiv(t.leadout, FRAMES_PER_SECOND)
                    - CDiv(t.tracks[1].offset, FRAMES_PER_SECOND)
    IN  U32Or(U32Or([hi |-> (n % 255) * 256, lo |-> 0], U32Mul(U32(secs), 256)),
              U32(t.track_count))

\* the uint32_t disc_id of calc_freedb_id; the left shift of a negative t is
\* taken as the shift of its two's complement, as gcc and clang define it
freedb_disc_id(t) ==
    LET n == SumSeq([i \in 1..t.track_count |->
                 digit_sum(CDiv(t.tracks[i].offset + PREGAP_FRAMES, FRAMES_PER_SECOND))])
        secs == CDiv(t.leadout + PREGAP_FRAMES, FRAMES_PER_SECOND)
                    - CDiv(t.tracks[1].offset + PREGAP_FRAMES, FRAMES_PER_SECOND)
    IN  U32Or(U32Or([hi |-> (n % 255) * 256, lo |-> 0], U32Mul(U32(secs), 256)),
              U32(t.track_count))

\* calc_freedb_id: the id as 8 hexadecimal digits
calc_freedb_id(t) == Hex8(freedb_disc_id(t))

\* snprintf("%03d", n) for n >= 0
Pad3(n) == IF n < 10 THEN <<48, 48>> \o DecDigits(n)
           ELSE IF n < 100 THEN <<48>> \o DecDigits(n)
           ELSE DecDigits(n)

RECURSIVE U32Sum(_)
U32Sum(q) == IF q = <<>> THEN U32(0) ELSE U32Add(Head(q), U32Sum(Tail(q)))

\* the audio tracks of the track array, in order
AudioTracks(t) == SelectSeq(t.tracks, LAMBDA tr : tr.type = "audio")

\* disc_id1 of calc_accuraterip_id: the audio offsets and the disc leadout
ar_disc_id1(t) ==
    LET audio == AudioTracks(t)
    IN  U32Add(U32Sum([k \in 1..Len(audio) |-> U32(audio[k].offset)]), U32(t.leadout))

\* disc_id2 with the absolute position in the track array as the factor
ar_disc_id2_abs(t) ==
    LET terms == [i \in 1..t.track_count |->
                    IF t.tracks[i].type = "audio"
                    THEN U32Mul(U32(Max2(t.tracks[i].offset, 1)), i)
                    ELSE U32(0)]
    IN  U32Add(U32Sum(terms), U32Mul(U32(t.leadout), t.audio_count + 1))

\* disc_id2 of calc_accuraterip_id: max(offset, 1) times audio_index, which
\* counts the audio tracks from 1, and the leadout times audio_count + 1
ar_disc_id2(t) ==
    LET audio == AudioTracks(t)
    IN  U32Add(U32Sum([k \in 1..Len(audio) |-> U32Mul(U32(Max2(audio[k].offset, 1)), k)]),
               U32Mul(U32(t.leadout), t.audio_count + 1))

\* calc_accuraterip_id: "%03d-%08x-%08x-%s"
calc_accuraterip_id(t) ==
    Pad3(t.audio_count) \o <<45>> \o Hex8(ar_disc_id1(t)) \o <<45>>
        \o Hex8(ar_disc_id2(t)) \o <<45>> \o calc_freedb_id(t)

\* snprintf("%08X", n) and snprintf("%02X", n) of an int
toupper(c) == IF c >= 97 /\ c <= 122 THEN c - 32 ELSE c
Hex8X(n) == [i \in 1..8 |-> toupper(Hex8(U32(n))[i])]
Hex2X(n) == [i \in 1..2 |-> toupper(HexDigits(n, 2)[i])]

RECURSIVE Concat(_)
Concat(parts) == IF parts = <<>> THEN <<>> ELSE Head(parts) \o Concat(Tail(parts))

\* discid_put reading offsets[i], the slot of track number i
discid_put_bynumber(first, last, offsets) ==
    IF first < 1 \/ first > 99 \/ last < first \/ last > 99 THEN <<>>
    ELSE <<[first_track |-> first,
            last_track  |-> last,
            offsets     |-> [i \in 0..MAX_TRACKS |->
                               IF i = 0 \/ (i >= first /\ i <= last) THEN offsets[i]
                               ELSE 0]]>>

\* discid_put of discid_stub.c: NULL (<<>>) on bad track numbers, else the
\* DiscId with offsets[0] and, for each track i, offsets[i - first + 1]
discid_put(first, last, offsets) ==
    IF first < 1 \/ first > 99 \/ last < first \/ last > 99 THEN <<>>
    ELSE <<[first_track |-> first,
            last_track  |-> last,
            offsets     |-> [i \in 0..MAX_TRACKS |->
                               IF i = 0 THEN offsets[0]
                               ELSE IF i >= first /\ i <= last THEN offsets[i - first + 1]
                               ELSE 0]]>>

\* calc_mb_id: the text handed to SHA1Update, whose digest base64_encode
\* turns into the id
calc_mb_id(d) ==
    Hex2X(d.first_track) \o Hex2X(d.last_track) \o Hex8X(d.offsets[0])
        \o Concat([i \in 1..MAX_TRACKS |->
                      IF i >= d.first_track /\ i <= d.last_track
                      THEN Hex8X(d.offsets[i]) ELSE Hex8X(0)])

\* calc_musicbrainz_id: NULL (<<>>) without an audio track or when discid_put
\* fails, else <<text>> with the text the id is the hash of
calc_musicbrainz_id(t) ==
    LET first_audio == toc_get_first_audio_track(t)
        last_audio  == toc_get_last_audio_track(t)
        is_enhanced_cd == last_audio < t.last_track
        last_track == IF is_enhanced_cd THEN last_audio ELSE t.last_track
        leadout    == IF is_enhanced_cd THEN t.audio_leadout ELSE t.leadout
        inrange    == {i \in 1..t.track_count :
                          /\ t.tracks[i].number >= t.first_track
                          /\ t.tracks[i].number <= last_track}
        offsets    == [k \in 0..MAX_TRACKS |->
                          IF k = 0 THEN leadout + PREGAP_FRAMES
                          ELSE IF \E i \in inrange : t.tracks[i].number = k
                          THEN t.tracks[CHOOSE i \in inrange : t.tracks[i].number = k].offset
                                   + PREGAP_FRAMES
                          ELSE 0]
    IN  IF first_audio = 0 THEN <<>>
        ELSE LET d == discid_put(t.first_track, last_track, offsets)
             IN  IF d = <<>> THEN <<>> ELSE <<calc_mb_id(d[1])>>

\* toc_get_disc_type
toc_get_disc_type(t) ==
    IF t.data_count = 0 THEN "audio"
    ELSE IF t.first_track = 1 /\ t.tracks[1].type = "data" THEN "mixed"
    ELSE IF t.tracks[t.track_count].type = "data" THEN "enhanced"
    ELSE IF (\A i \in 1..t.track_count : t.tracks[i].type # "data") /\ t.data_count > 0
    THEN "enhanced"
    ELSE "unknown"

\* toc_get_disc_type, then calculate_ids, on the toc_t of process_cdtoc (a
\* parsed text) or of process_disc (a toc_t device_read_disc has filled in)
IdsOf(t) ==
    [toc    |-> t,
     type   |-> toc_get_disc_type(t),
     accuraterip |-> calc_accuraterip_id(t),
     freedb |-> calc_freedb_id(t),
     musicbrainz |-> calc_musicbrainz_id(t)]

CalculateIds ==
    /\ \/ tpc = "parsed" /\ parsed.ret = 0 /\ info' = <<IdsOf(parsed.toc)>>
       \/ tpc = "toc" /\ info' = <<IdsOf(tocIn[1])>>
    /\ tpc' = "ids"
    /\ UNCHANGED <<tocIn, format, text, parsed, detected>>
    /\ UNCHANGED notToc

\* the most tracks of a toc_t to render, and the most tokens of a text
MaxTocTracks == 3
MaxTextTokens == 5

\* track offsets (raw LBA) the rendered toc_t values are built from
OffsetPool == {0, 33, 183, 250}

\* frames from the last offset to the leadout: less than a second, a few
\* seconds, most of a minute
TailPool == {40, 300, 4000}

\* frames between the end of the audio session and the data track of a
\* multi-session disc
SessionGap == 20

\* "bracketed" is a single session with a data track first and a data track
\* last; with one or two tracks it is a disc of data tracks only
TocLayouts == {"audio", "enhanced", "multisession", "mixed", "bracketed"}

\* the audio_leadout device_read_toc determines: the leadout of session 1 on
\* a multi-session disc with a full TOC, else on a disc with audio and data
\* tracks the offset of the first data track if an audio track precedes it
device_audio_leadout(tracks, leadout, last_session, have_full_toc, session_leadout0) ==
    LET data  == {i \in 1..Len(tracks) : tracks[i].type = "data"}
        first == CHOOSE i \in data : \A j \in data : i <= j
    IN  IF last_session > 1 /\ have_full_toc
        THEN IF session_leadout0 > 0 THEN session_leadout0 ELSE leadout
        ELSE IF data # {} /\ data # 1..Len(tracks)
                /\ first > 1 /\ tracks[first - 1].type = "audio"
             THEN tracks[first].offset
             ELSE leadout

\* the toc_t device_read_toc builds for a disc: tracks numbered from first,
\* typed from the control bytes of the full TOC, the lengths from the next
\* offset or the leadout
MakeToc(first, layout, offs, tail) ==
    LET n == Len(offs)
        leadout == offs[n] + tail
        isData(i) == \/ layout \in {"enhanced", "multisession"} /\ i = n
                     \/ layout = "mixed" /\ i = 1
                     \/ layout = "bracketed" /\ i \in {1, n}
        ndata == Cardinality({i \in 1..n : isData(i)})
        last_session == IF layout = "multisession" THEN 2 ELSE 1
        tracks == [i \in 1..n |->
                      [number  |-> first + i - 1,
                       session |-> IF layout = "multisession" /\ i = n THEN 2 ELSE 1,
                       type    |-> IF isData(i) THEN "data" ELSE "audio",
                       offset  |-> offs[i],
                       length  |-> IF i < n THEN offs[i + 1] - offs[i]
                                   ELSE leadout - offs[i]]]
    IN  [first_track   |-> first,
         last_track    |-> first + n - 1,
         last_session  |-> last_session,
         track_count   |-> n,
         audio_count   |-> n - ndata,
         data_count    |-> ndata,
         leadout       |-> leadout,
         audio_leadout |-> device_audio_leadout(tracks, leadout, last_session, TRUE,
                                                offs[n] - SessionGap),
         tracks        |-> tracks]

ValidTocs ==
    { MakeToc(first, layout, offs, tail) :
        first \in {1, 2}, layout \in TocLayouts, tail \in TailPool,
        offs \in UNION { {q \in [1..n -> OffsetPool] : Increasing(q)} : n \in 1..MaxTocTracks } }

\* a Mixed disc: data track 1 and 8 audio tracks
MixedNineToc ==
    MakeToc(1, "mixed", <<0, 15000, 30000, 45000, 60000, 75000, 90000, 105000, 120000>>, 300)

SeedTocs == {MixedNineToc}

\* session 2 of a multi-session disc follows a session of audio tracks
RenderedTocs == {t \in ValidTocs : t.last_session = 1 \/ t.audio_count >= 1} \cup SeedTocs

\* the tokens the parsed texts are made of: "1" "2" "225" "-1" "1x"
TokenPool == {<<49>>, <<50>>, <<50, 50, 53>>, <<45, 49>>, <<49, 120>>}

\* the TOC text of a standard 12-track audio CD, in the MusicBrainz dialect
StandardCdText ==
    <<49>> \o FormatInts(<<12, 198592, 150, 17477, 32100, 47997, 67160, 84650, 93732,
                          110667, 127377, 147860, 160437, 183097>>)

\* an AccurateRip text of three tracks that names one audio track and puts
\* the first audio track at track 2
OneAudioOfThreeText == <<51>> \o FormatInts(<<1, 2, 0, 1000, 2000, 3000>>)

\* an AccurateRip text whose sums pass 2^32
LargeLbaText == <<50>> \o FormatInts(<<2, 1, 2000000000, 2100000000, 2147483000>>)

SeedTexts == {StandardCdText, OneAudioOfThreeText, LargeLbaText}

RECURSIVE Join(_, _)
Join(toks, sep) ==
    IF Len(toks) = 1 THEN toks[1]
    ELSE toks[1] \o sep \o Join(Tail(toks), sep)

\* texts of 3 to MaxTextTokens tokens separated by one space, and the
\* 3-token texts also with a tab and a space between the tokens
Texts ==
    { Join(toks, <<32>>) :
        toks \in UNION { [1..n -> TokenPool] : n \in 3..MaxTextTokens } }
    \cup { Join(toks, <<9, 32>>) : toks \in [1..3 -> TokenPool] }
    \cup SeedTexts

-----------------------------------------------------------------------------
(* Specification of the TOC text functions *)

InitToc ==
    /\ format \in Formats
    /\ \/ tpc = "toc" /\ tocIn \in {<<t>> : t \in RenderedTocs} /\ text = <<>>
       \/ tpc = "text" /\ tocIn = <<>> /\ text \in Texts
    /\ parsed = "none" /\ detected = "none" /\ info = <<>>
    /\ IdleColl /\ IdleIsrc /\ IdleOpen /\ IdleDisc /\ IdleCdt /\ IdleRtoc

NextToc ==
    \/ FormatRaw
    \/ FormatMusicBrainz
    \/ FormatAccurateRip
    \/ FormatFreeDB
    \/ Parse
    \/ Detect
    \/ CalculateIds

SpecToc == InitToc /\ [][NextToc]_vars

-----------------------------------------------------------------------------
(* cdtext_parse (cdtext.c): the CD-Text pack parser *)

\* a cdtext_pack_t is [pack_type, track_num, seq_num, char_pos, text, crc]:
\* four header bytes, CDTEXT_TEXT_SIZE text bytes and two CRC bytes
CDTEXT_TEXT_SIZE == 12
CDTEXT_MAX_TRACKS == 99
CDTEXT_PACK_TITLE == 128
CDTEXT_PACK_PERFORMER == 129
CDTEXT_PACK_SONGWRITER == 130
CDTEXT_PACK_COMPOSER == 131
CDTEXT_PACK_ARRANGER == 132
CDTEXT_PACK_MESSAGE == 133
CDTEXT_PACK_DISC_ID == 134
CDTEXT_PACK_GENRE == 135
CDTEXT_PACK_SIZE_INFO == 143
CDTEXT_CHARSET_ISO8859_1 == 0
CDTEXT_CHARSET_ASCII == 1
CDTEXT_CHARSET_MSJIS == 128

RECURSIVE BitXor(_, _)
\* a ^ b on non-negative integers
BitXor(a, b) ==
    IF a = 0 THEN b
    ELSE IF b = 0 THEN a
    ELSE ((a + b) % 2) + 2 * BitXor(a \div 2, b \div 2)

\* one round of the inner loop of crc16_cdtext, on a uint16_t
CrcRound(crc) ==
    IF crc >= 32768 THEN BitXor((crc * 2) % 65536, 4129) ELSE (crc * 2) % 65536

RECURSIVE CrcRounds(_, _)
CrcRounds(crc, j) ==
    IF j = 0 THEN crc
    ELSE Only({CrcRounds(CrcRound(c), j - 1) : c \in {crc}})

RECURSIVE CrcFrom(_, _, _, _)
\* the outer loop of crc16_cdtext from byte i (0-based) on
CrcFrom(data, len, i, crc) ==
    IF i >= len THEN crc
    ELSE Only({CrcFrom(data, len, i + 1, CrcRounds(BitXor(c, data[i + 1] * 256), 8))
               : c \in {crc}})

crc16_cdtext(data, len) == CrcFrom(data, len, 0, 0)

\* the first 16 bytes of a pack, as the cast to uint8_t* sees them
PackBytes(pack) ==
    <<pack.pack_type, pack.track_num, pack.seq_num, pack.char_pos>> \o pack.text

\* the comparison without the inversion of the computed CRC
cdtext_pack_crc_valid_noinvert(pack) ==
    crc16_cdtext(PackBytes(pack), 16) = BitOr(pack.crc[1] * 256, pack.crc[2])

cdtext_pack_crc_valid(pack) ==
    (65535 - crc16_cdtext(PackBytes(pack), 16)) = BitOr(pack.crc[1] * 256, pack.crc[2])

RECURSIVE iso8859_1_to_utf8(_)
iso8859_1_to_utf8(src) ==
    IF src = <<>> \/ Head(src) = 0 THEN <<>>
    ELSE (IF Head(src) < 128 THEN <<Head(src)>>
          ELSE <<BitOr(192, Head(src) \div 64), BitOr(128, Head(src) % 64)>>)
         \o iso8859_1_to_utf8(Tail(src))

\* <ctype.h> isspace in the C locale: space, \t, \n, \v, \f, \r
isspace(c) == c = 32 \/ (c >= 9 /\ c <= 13)

RECURSIVE TrimLeading(_)
TrimLeading(str) ==
    IF str # <<>> /\ isspace(Head(str)) THEN TrimLeading(Tail(str)) ELSE str

RECURSIVE TrimTrailing(_)
TrimTrailing(str) ==
    IF str # <<>> /\ isspace(str[Len(str)])
    THEN TrimTrailing(SubSeq(str, 1, Len(str) - 1)) ELSE str

\* normalize_cdtext_string: control characters but \n become spaces, \r is
\* dropped (none is left by then), white space is trimmed at both ends
normalize_cdtext_string(str) ==
    LET spaced == [i \in 1..Len(str) |->
                     IF str[i] < 32 /\ str[i] # 10 THEN 32 ELSE str[i]]
        nocr == SelectSeq(spaced, LAMBDA c : c # 13)
    IN  TrimTrailing(TrimLeading(nocr))

\* accum_finish on the bytes of an accumulator: <<>> is NULL (the field is
\* absent), <<s>> is the allocated string s
accum_finish(data, charset) ==
    IF data = <<>> THEN <<>>
    ELSE LET result == normalize_cdtext_string(
                         IF charset = CDTEXT_CHARSET_ISO8859_1
                         THEN iso8859_1_to_utf8(data) ELSE data)
         IN  IF result = <<>> THEN <<>> ELSE <<result>>

\* block_state_t after block_state_init; acc maps <<pack_type, track>> to the
\* bytes of that accumulator and holds the accumulators that are not empty
block_state_init ==
    [acc             |-> <<>>,
     charset         |-> CDTEXT_CHARSET_ISO8859_1,
     first_track     |-> 1,
     last_track      |-> 99,
     size_info_found |-> FALSE]

AccBytes(acc, k) == IF k \in DOMAIN acc THEN acc[k] ELSE <<>>

\* accum_append of one byte
accum_append(acc, k, c) == (k :> Append(AccBytes(acc, k), c)) @@ acc

\* get_track_accum: the key of the accumulator, <<>> for NULL
get_track_accum(pack_type, track) ==
    IF track < 0 \/ track > CDTEXT_MAX_TRACKS THEN <<>>
    ELSE IF pack_type >= CDTEXT_PACK_TITLE /\ pack_type <= CDTEXT_PACK_MESSAGE
         THEN <<pack_type, track>>
    ELSE IF pack_type = CDTEXT_PACK_GENRE /\ track = 0 THEN <<pack_type, 0>>
    ELSE <<>>

RECURSIVE TextLoop(_, _, _, _)
\* the loop of process_text_pack from byte i (0-based) on: the block state and
\* the value left in *current_track
TextLoop(state, pack, i, track) ==
    IF i >= CDTEXT_TEXT_SIZE THEN [state |-> state, track |-> track]
    ELSE Only({
           IF pack.text[i + 1] = 0
           THEN IF t + 1 > s.last_track
                THEN [state |-> s, track |-> t + 1]
                ELSE TextLoop(s, pack, i + 1, t + 1)
           ELSE TextLoop(
                  IF get_track_accum(pack.pack_type, t) # <<>>
                  THEN [s EXCEPT !.acc = accum_append(
                           @, get_track_accum(pack.pack_type, t), pack.text[i + 1])]
                  ELSE s,
                  pack, i + 1, t)
           : <<s, t>> \in {<<state, track>>}})

\* process_text_pack without the cursor: every pack starts at the album
process_text_pack_nocursor(state, pack, track) == TextLoop(state, pack, 0, 0)

process_text_pack(state, pack, track) == TextLoop(state, pack, 0, track)

PackBlock(pack) == (pack.char_pos \div 16) % 8

\* the body of the loop of parse_size_info for one pack
parse_size_info(state, pack) ==
    IF pack.pack_type # CDTEXT_PACK_SIZE_INFO THEN state
    ELSE IF PackBlock(pack) # 0 THEN state
    ELSE IF ~cdtext_pack_crc_valid(pack) THEN state
    ELSE IF pack.seq_num = 0
         THEN [state EXCEPT !.charset = pack.text[1],
                            !.first_track = pack.text[2],
                            !.last_track = pack.text[3],
                            !.size_info_found = TRUE]
    ELSE state

\* cdtext_t after memset: no field is present
NoTrackFields ==
    [title |-> <<>>, artist |-> <<>>, lyricist |-> <<>>, composer |-> <<>>,
     arranger |-> <<>>, comment |-> <<>>]

EmptyCdtext ==
    [album |-> [album |-> <<>>, albumartist |-> <<>>, genre |-> <<>>,
                lyricist |-> <<>>, composer |-> <<>>, arranger |-> <<>>,
                comment |-> <<>>],
     tracks |-> [ix \in 0..(MAX_TRACKS - 1) |-> NoTrackFields],
     track_count |-> 0]

\* the output structure built at the end of cdtext_parse
BuildOutput(state) ==
    LET F(type, t) == accum_finish(AccBytes(state.acc, <<type, t>>), state.charset)
    IN  [album |-> [album       |-> F(CDTEXT_PACK_TITLE, 0),
                    albumartist |-> F(CDTEXT_PACK_PERFORMER, 0),
                    lyricist    |-> F(CDTEXT_PACK_SONGWRITER, 0),
                    composer    |-> F(CDTEXT_PACK_COMPOSER, 0),
                    arranger    |-> F(CDTEXT_PACK_ARRANGER, 0),
                    comment     |-> F(CDTEXT_PACK_MESSAGE, 0),
                    genre       |-> F(CDTEXT_PACK_GENRE, 0)],
         tracks |-> [ix \in 0..(MAX_TRACKS - 1) |->
                       IF ix + 1 <= state.last_track
                       THEN [title    |-> F(CDTEXT_PACK_TITLE, ix + 1),
                             artist   |-> F(CDTEXT_PACK_PERFORMER, ix + 1),
                             lyricist |-> F(CDTEXT_PACK_SONGWRITER, ix + 1),
                             composer |-> F(CDTEXT_PACK_COMPOSER, ix + 1),
                             arranger |-> F(CDTEXT_PACK_ARRANGER, ix + 1),
                             comment  |-> F(CDTEXT_PACK_MESSAGE, ix + 1)]
                       ELSE NoTrackFields],
         track_count |-> state.last_track]

\* cdtext_parse finds no pack in raw_data and returns
NoPacks ==
    /\ cpc = "enter" /\ Len(packs) = 0
    /\ cdtext' = <<EmptyCdtext>>
    /\ cret' = 0
    /\ cpc' = "done"
    /\ UNCHANGED <<packs, ci, bstate, current_track>>
    /\ UNCHANGED notCdt

\* block_state_init, before the first pass
BlockStateInit ==
    /\ cpc = "enter" /\ Len(packs) > 0
    /\ bstate' = block_state_init
    /\ ci' = 0
    /\ cpc' = "size"
    /\ UNCHANGED <<packs, current_track, cdtext, cret>>
    /\ UNCHANGED notCdt

\* first pass: one turn of the loop of parse_size_info
SizeInfoPack ==
    /\ cpc = "size" /\ ci < Len(packs)
    /\ bstate' = parse_size_info(bstate, packs[ci + 1])
    /\ ci' = ci + 1
    /\ UNCHANGED <<cpc, packs, current_track, cdtext, cret>>
    /\ UNCHANGED notCdt

\* the check of the encoding, taken as a check of every charset
charset_supported_any(charset) == TRUE

\* the check of the encoding after the first pass
charset_supported(charset) ==
    ~(charset # CDTEXT_CHARSET_ISO8859_1 /\ charset # CDTEXT_CHARSET_ASCII)

\* the first pass is over and the charset is not one cdtext_parse decodes
UnsupportedCharset ==
    /\ cpc = "size" /\ ci = Len(packs)
    /\ ~charset_supported(bstate.charset)
    /\ cdtext' = <<EmptyCdtext>>
    /\ cret' = 0
    /\ cpc' = "done"
    /\ UNCHANGED <<packs, ci, bstate, current_track>>
    /\ UNCHANGED notCdt

\* the first pass is over, the charset is supported: current_track[16] = {0}
StartTextPass ==
    /\ cpc = "size" /\ ci = Len(packs)
    /\ charset_supported(bstate.charset)
    /\ current_track' = [k \in 0..15 |-> 0]
    /\ ci' = 0
    /\ cpc' = "text"
    /\ UNCHANGED <<packs, bstate, cdtext, cret>>
    /\ UNCHANGED notCdt

\* second pass: one turn of the loop over the packs
TextPack ==
    /\ cpc = "text" /\ ci < Len(packs)
    /\ \E pack \in {packs[ci + 1]} :
         IF \/ PackBlock(pack) # 0
            \/ pack.pack_type < CDTEXT_PACK_TITLE
            \/ pack.pack_type > CDTEXT_PACK_GENRE
            \/ ~cdtext_pack_crc_valid(pack)
         THEN UNCHANGED <<bstate, current_track>>
         ELSE \E type_idx \in {pack.pack_type % 16} :
              \E r \in {process_text_pack(
                          bstate, pack,
                          IF pack.seq_num = 0 THEN pack.track_num
                          ELSE current_track[type_idx])} :
                /\ bstate' = r.state
                /\ current_track' = [current_track EXCEPT ![type_idx] = r.track]
    /\ ci' = ci + 1
    /\ UNCHANGED <<cpc, packs, cdtext, cret>>
    /\ UNCHANGED notCdt

\* the second pass is over: the output structure is built, cdtext_parse returns
BuildCdtext ==
    /\ cpc = "text" /\ ci = Len(packs)
    /\ cdtext' = <<BuildOutput(bstate)>>
    /\ cret' = 0
    /\ cpc' = "done"
    /\ UNCHANGED <<packs, ci, bstate, current_track>>
    /\ UNCHANGED notCdt

(* The environment of cdtext_parse: the pack streams a drive can return *)

\* the CRC of CD-Text as the standard defines it: the remainder of the message,
\* shifted left by 16 bits, divided by x^16 + x^12 + x^5 + 1; the pack stores
\* its complement, high byte first
MessageBits(bytes) ==
    [n \in 1..(8 * Len(bytes)) |->
       (bytes[((n - 1) \div 8) + 1] \div (2 ^ (7 - ((n - 1) % 8)))) % 2]

RECURSIVE PolyMod(_, _, _, _)
\* the remainder after the bits lo..hi are shifted into the remainder r
PolyMod(bits, lo, hi, r) ==
    IF lo > hi THEN r
    ELSE IF lo = hi
         THEN Only({IF x >= 65536 THEN BitXor(x - 65536, 4129) ELSE x
                    : x \in {2 * r + bits[lo]}})
    ELSE Only({PolyMod(bits, ((lo + hi) \div 2) + 1, hi, x)
               : x \in {PolyMod(bits, lo, (lo + hi) \div 2, r)}})

Crc16Ccitt(bytes) ==
    Only({PolyMod(b, 1, Len(b), 0) : b \in {MessageBits(bytes) \o [k \in 1..16 |-> 0]}})

\* the pack passes the CRC check of the standard
CrcIntact(pack) ==
    65535 - Crc16Ccitt(PackBytes(pack)) = pack.crc[1] * 256 + pack.crc[2]

\* a pack as the disc's authoring wrote it, with its CRC
MakePack(type, track, seq, char_pos, txt) ==
    Only({[pack_type |-> type, track_num |-> track, seq_num |-> seq,
           char_pos |-> char_pos, text |-> txt,
           crc |-> <<(65535 - c) \div 256, (65535 - c) % 256>>]
          : c \in {Crc16Ccitt(<<type, track, seq, char_pos>> \o txt)}})

Zeros(n) == [k \in 1..n |-> 0]

\* the packs of block 0 that carry a payload of NUL-terminated strings for one
\* pack type, the first string being that of track T
TextPacks(type, T, payload) ==
    LET n == (Len(payload) + CDTEXT_TEXT_SIZE - 1) \div CDTEXT_TEXT_SIZE
        padded == payload \o Zeros(n * CDTEXT_TEXT_SIZE - Len(payload))
    IN  [k \in 1..n |->
           MakePack(type,
                    T + Cardinality({j \in 1..((k - 1) * CDTEXT_TEXT_SIZE) : padded[j] = 0}),
                    k - 1, 0,
                    SubSeq(padded, (k - 1) * CDTEXT_TEXT_SIZE + 1, k * CDTEXT_TEXT_SIZE))]

\* the sequence-0 size-info pack of block 0
SizeInfoOf(charset, first, last) ==
    MakePack(CDTEXT_PACK_SIZE_INFO, 0, 0, 0, <<charset, first, last>> \o Zeros(9))

\* "ALBUM TITLE\0TRACK ONE\0" in four packs
AlbumTitlePayload ==
    <<65, 76, 66, 85, 77, 32, 84, 73, 84, 76, 69, 0,
      84, 82, 65, 67, 75, 32, 79, 78, 69, 0>> \o Zeros(26)

PayloadPool ==
    { AlbumTitlePayload,
      \* "AB", an empty string, "CD"
      <<65, 66, 0, 0, 67, 68, 0>>,
      \* a string of 14 characters, which spans two packs, and "XY"
      <<65, 66, 67, 68, 69, 70, 71, 72, 73, 74, 75, 76, 77, 78, 0, 88, 89, 0>>,
      \* " A\t", then e-acute in ISO-8859-1, then "\r"
      <<32, 65, 9, 0, 233, 0, 13, 0>>,
      \* "A", "B", "C": one string more than the tracks 1..2 hold after the album
      <<65, 0, 66, 0, 67, 0>> }

TextTypePool ==
    {CDTEXT_PACK_TITLE, CDTEXT_PACK_PERFORMER, CDTEXT_PACK_DISC_ID, CDTEXT_PACK_GENRE}
FirstTrackPool == {0, 1}
\* the charset of the size-info pack; -1: the stream has no size-info pack
CharsetPool == {-1, CDTEXT_CHARSET_ISO8859_1, CDTEXT_CHARSET_ASCII, CDTEXT_CHARSET_MSJIS}
\* how a pack is damaged: a flipped CRC bit, a CRC stored without the
\* complement, a changed text byte
DamagePool == {"crcbit", "plaincrc", "textbyte"}

Damaged(pack, kind) ==
    CASE kind = "crcbit" ->
           [pack EXCEPT !.crc[2] = IF @ % 2 = 0 THEN @ + 1 ELSE @ - 1]
      [] kind = "plaincrc" ->
           [pack EXCEPT !.crc = <<255 - pack.crc[1], 255 - pack.crc[2]>>]
      [] kind = "textbyte" ->
           [pack EXCEPT !.text[1] = (@ + 1) % 256]

\* the text packs followed by the size-info pack that declares tracks 1..2
IntactStream(type, T, payload, charset) ==
    TextPacks(type, T, payload)
    \o (IF charset = -1 THEN <<>> ELSE <<SizeInfoOf(charset, 1, 2)>>)

\* a title pack of block 1
OtherBlockPack ==
    MakePack(CDTEXT_PACK_TITLE, 0, 0, 16, <<90, 90, 0>> \o Zeros(9))

\* album artist packs that follow the title packs, their sequence numbers
\* running on
TwoTypeStream ==
    LET title == TextPacks(CDTEXT_PACK_TITLE, 0, <<65, 0, 66, 0>>)
        perf  == MakePack(CDTEXT_PACK_PERFORMER, 0, 1, 0, <<80, 0, 81, 0>> \o Zeros(8))
    IN  title \o <<perf>> \o <<SizeInfoOf(CDTEXT_CHARSET_ISO8859_1, 1, 2)>>

IntactStreams ==
    {IntactStream(type, T, payload, charset) :
       type \in TextTypePool, T \in FirstTrackPool,
       payload \in PayloadPool, charset \in CharsetPool}
    \cup {<<OtherBlockPack>> \o IntactStream(CDTEXT_PACK_TITLE, 0, AlbumTitlePayload,
                                             CDTEXT_CHARSET_ISO8859_1),
          TwoTypeStream}

PackStreams ==
    {<<>>}
    \cup IntactStreams
    \cup {[s EXCEPT ![k] = Damaged(@, kind)] :
            <<s, k>> \in {<<s, k>> \in IntactStreams \X (1..6) : k <= Len(s)},
            kind \in DamagePool}

InitCdt ==
    /\ cpc = "enter"
    /\ packs \in PackStreams
    /\ ci = 0
    /\ bstate = <<>>
    /\ current_track = <<>>
    /\ cdtext = <<>>
    /\ cret = "none"
    /\ IdleColl /\ IdleIsrc /\ IdleOpen /\ IdleDisc /\ IdleToc /\ IdleRtoc

NextCdt ==
    \/ NoPacks
    \/ BlockStateInit
    \/ SizeInfoPack
    \/ UnsupportedCharset
    \/ StartTextPass
    \/ TextPack
    \/ BuildCdtext

SpecCdtext == InitCdt /\ [][NextCdt]_vars

-----------------------------------------------------------------------------
(* device_read_toc (device.c) and the full TOC read (scsi_linux.c            *)
(* scsi_read_full_toc, device.c read_full_toc_ioctl)                         *)

\* the most descriptors of a full TOC response
MaxDescs == 3

\* an array of 100 entries, zeroed by memset: the entries written since
ArrGet(a, k) == IF k \in DOMAIN a THEN a[k] ELSE 0
ArrPut(a, k, v) == (k :> v) @@ a

\* Convert MSF to LBA: (M*60 + S)*75 + F - 150
MsfToLba(pmin, psec, pframe) == (pmin * 60 + psec) * 75 + pframe - 150

\* the caller's variables before the full TOC read (device.c:268-274)
FullTocLocals ==
    [first_track |-> 0, last_track |-> 0, control |-> <<>>, session |-> <<>>,
     offsets |-> <<>>, session_leadouts |-> [k \in 0..9 |-> 0], last_session |-> 1]

\* the outputs as both readers initialize them, and last_session as
\* scsi_read_full_toc takes it from byte 3 of the header
FullTocInit(plat, hdr_last) ==
    [first_track |-> 99, last_track |-> 1, control |-> <<>>, session |-> <<>>,
     offsets |-> <<>>, session_leadouts |-> [k \in 0..9 |-> 0],
     last_session |-> IF plat = "linux"
                      THEN (IF hdr_last < 1 THEN 1 ELSE IF hdr_last > 10 THEN 10 ELSE hdr_last)
                      ELSE 1]

\* the bound on the session number of a descriptor that raises last_session
LastSessionCap(plat) == IF plat = "linux" THEN 10 ELSE 99

\* the number of descriptors the loop parses
desc_count(toc_len) == CDiv(toc_len - 2, 11)

\* one turn of the loop over the descriptors
ParseDescriptor(plat, st, d) ==
    LET s1 == IF d.session > st.last_session /\ d.session <= LastSessionCap(plat)
              THEN [st EXCEPT !.last_session = d.session] ELSE st
    IN  IF d.point >= 1 /\ d.point <= 99
        THEN [s1 EXCEPT !.control = ArrPut(@, d.point, d.ctrl_adr % 16),
                        !.session = ArrPut(@, d.point, d.session),
                        !.offsets = ArrPut(@, d.point, MsfToLba(d.pmin, d.psec, d.pframe)),
                        !.first_track = Min2(@, d.point),
                        !.last_track = Max2(@, d.point)]
        ELSE IF d.point = 160
        THEN IF d.pmin >= 1 /\ d.pmin <= 99
             THEN [s1 EXCEPT !.first_track = Min2(@, d.pmin)] ELSE s1
        ELSE IF d.point = 161
        THEN IF d.pmin >= 1 /\ d.pmin <= 99
             THEN [s1 EXCEPT !.last_track = Max2(@, d.pmin)] ELSE s1
        ELSE IF d.point = 162
        THEN IF d.session >= 1 /\ d.session <= 10
             THEN [s1 EXCEPT !.session_leadouts[d.session - 1] =
                                 MsfToLba(d.pmin, d.psec, d.pframe)]
             ELSE s1
        ELSE s1

\* the index the turn writes in session_leadouts[], if any
LeadoutIndexWritten(d) ==
    IF d.point = 162 /\ d.session >= 1 /\ d.session <= 10 THEN {d.session - 1} ELSE {}

\* the descriptor i (0-based) of the buffer: past the data the drive
\* delivered the buffer holds the zeros of memset (scsi_linux.c:570)
BufferDesc(drive, i) ==
    IF i < Len(drive.descs) THEN drive.descs[i + 1]
    ELSE [session |-> 0, ctrl_adr |-> 0, point |-> 0, pmin |-> 0, psec |-> 0, pframe |-> 0]

\* a read of session_leadouts[k]: outside the 10 entries the read is of
\* whatever lies behind the array
LeadoutReads(st, k) ==
    IF k \in 0..9 THEN {st.session_leadouts[k]} ELSE {0, 4242}

\* the tracks device_read_toc builds (device.c:304-341), before the lengths
BuiltTracks(lib, st, have, actual_first, actual_last) ==
    [n \in 1..(actual_last - actual_first + 1) |->
       LET t == actual_first + n - 1
           sn == IF have THEN ArrGet(st.session, t) ELSE 1
       IN  [number  |-> t,
            session |-> IF sn = 0 THEN 1 ELSE sn,
            type    |-> IF have /\ (ArrGet(st.control, t) \div 4) % 2 = 1
                        THEN "data" ELSE "audio",
            offset  |-> IF have /\ ArrGet(st.offsets, t) # 0 THEN ArrGet(st.offsets, t)
                        ELSE IF t >= lib.first /\ t <= lib.last
                             THEN lib.offsets[t] - PREGAP_FRAMES
                        ELSE ArrGet(st.offsets, t)]]

\* the toc_t of device_read_toc from line 296 on; leadoutN and leadout0 are the
\* values read at session_leadouts[last_session - 1] and session_leadouts[0]
BuiltToc(lib, st, have, leadoutN, leadout0) ==
    LET actual_first == lib.first
        actual_last == IF have /\ st.last_track > lib.last THEN st.last_track ELSE lib.last
        trk == BuiltTracks(lib, st, have, actual_first, actual_last)
        n == Len(trk)
        leadout == IF have /\ leadoutN > 0 THEN leadoutN ELSE lib.sectors - PREGAP_FRAMES
        ndata == Cardinality({i \in 1..n : trk[i].type = "data"})
    IN  [first_track   |-> actual_first,
         last_track    |-> actual_last,
         last_session  |-> st.last_session,
         track_count   |-> n,
         audio_count   |-> n - ndata,
         data_count    |-> ndata,
         leadout       |-> leadout,
         audio_leadout |-> device_audio_leadout(trk, leadout, st.last_session, have, leadout0),
         tracks        |-> [i \in 1..n |->
                              [number  |-> trk[i].number,
                               session |-> trk[i].session,
                               type    |-> trk[i].type,
                               offset  |-> trk[i].offset,
                               length  |-> IF i < n THEN trk[i + 1].offset - trk[i].offset
                                           ELSE leadout - trk[i].offset]]]

\* discid_read_sparse fails: device_read_toc returns EX_IOERR
LibdiscidFail ==
    /\ rpc = "libdiscid" /\ ~rdrive.lib.ok
    /\ rret' = EX_IOERR
    /\ rpc' = "done"
    /\ UNCHANGED <<rplat, rdrive, ri, ftoc, haveFull, rtoc, sidx>>
    /\ UNCHANGED notRtoc

\* discid_read_sparse succeeds: toc_init, the locals of the full TOC read
LibdiscidRead ==
    /\ rpc = "libdiscid" /\ rdrive.lib.ok
    /\ ftoc' = FullTocLocals
    /\ rpc' = "fulltoc"
    /\ UNCHANGED <<rplat, rdrive, ri, haveFull, rtoc, rret, sidx>>
    /\ UNCHANGED notRtoc

\* the full TOC is not read: scsi_open or open fails, the command or the ioctl
\* fails, or (Linux) toc_len < 2
FullTocUnread ==
    /\ rpc = "fulltoc"
    /\ \/ /\ ~rdrive.open
          /\ UNCHANGED ftoc
       \/ /\ rdrive.open /\ ~rdrive.cmd
          /\ ftoc' = IF rplat = "linux" THEN FullTocInit(rplat, 1) ELSE ftoc
       \/ /\ rdrive.open /\ rdrive.cmd /\ rplat = "linux" /\ rdrive.toc_len < 2
          /\ ftoc' = FullTocInit(rplat, 1)
    /\ haveFull' = FALSE
    /\ rpc' = "build"
    /\ UNCHANGED <<rplat, rdrive, ri, rtoc, rret, sidx>>
    /\ UNCHANGED notRtoc

\* the response is in the buffer: the header is parsed
FullTocHeader ==
    /\ rpc = "fulltoc" /\ rdrive.open /\ rdrive.cmd
    /\ rplat = "linux" => rdrive.toc_len >= 2
    /\ ftoc' = FullTocInit(rplat, rdrive.hdr_last)
    /\ ri' = 0
    /\ rpc' = "desc"
    /\ UNCHANGED <<rplat, rdrive, haveFull, rtoc, rret, sidx>>
    /\ UNCHANGED notRtoc

\* one turn of the loop over the descriptors
FullTocDescriptor ==
    /\ rpc = "desc" /\ ri < desc_count(rdrive.toc_len) /\ ri < 100
    /\ ftoc' = ParseDescriptor(rplat, ftoc, BufferDesc(rdrive, ri))
    /\ sidx' = sidx \cup LeadoutIndexWritten(BufferDesc(rdrive, ri))
    /\ ri' = ri + 1
    /\ UNCHANGED <<rpc, rplat, rdrive, haveFull, rtoc, rret>>
    /\ UNCHANGED notRtoc

\* the loop is over: "validate we found something"
FullTocValidate ==
    /\ rpc = "desc" /\ ~(ri < desc_count(rdrive.toc_len) /\ ri < 100)
    /\ IF ftoc.first_track > ftoc.last_track
       THEN /\ ftoc' = [ftoc EXCEPT !.first_track = 1, !.last_track = 1]
            /\ haveFull' = FALSE
       ELSE /\ haveFull' = TRUE
            /\ UNCHANGED ftoc
    /\ rpc' = "build"
    /\ UNCHANGED <<rplat, rdrive, ri, rtoc, rret, sidx>>
    /\ UNCHANGED notRtoc

\* the rest of device_read_toc: the toc_t is built and 0 is returned
BuildToc ==
    /\ rpc = "build"
    /\ \E leadoutN \in (IF haveFull THEN LeadoutReads(ftoc, ftoc.last_session - 1) ELSE {0}),
          leadout0 \in (IF haveFull /\ ftoc.last_session > 1
                        THEN LeadoutReads(ftoc, 0) ELSE {0}) :
         rtoc' = <<BuiltToc(rdrive.lib, ftoc, haveFull, leadoutN, leadout0)>>
    /\ sidx' = sidx \cup (IF haveFull THEN {ftoc.last_session - 1} ELSE {})
                    \cup (IF haveFull /\ ftoc.last_session > 1 THEN {0} ELSE {})
    /\ rret' = 0
    /\ rpc' = "done"
    /\ UNCHANGED <<rplat, rdrive, ri, ftoc, haveFull>>
    /\ UNCHANGED notRtoc

(* The environment of device_read_toc *)

\* what libdiscid reports (it is not among the sources): the tracks 1..2 of
\* session 1, with the pregap in the offsets and in the sectors
LibdiscidPool ==
    {[ok |-> FALSE, first |-> 0, last |-> 0, offsets |-> <<>>, sectors |-> 0],
     [ok |-> TRUE, first |-> 1, last |-> 2, offsets |-> <<150, 15150>>, sectors |-> 30150]}

Desc(sn, ctrl_adr, point, pmin, psec, pframe) ==
    [session |-> sn, ctrl_adr |-> ctrl_adr, point |-> point,
     pmin |-> pmin, psec |-> psec, pframe |-> pframe]

\* descriptors of the full TOC: track 1 of session 1, the data track 3 of
\* session 2, A1 and A2 of session 1, A0 naming a first track 5, a track that
\* names session 50
DescPool ==
    {Desc(1, 16, 1, 0, 2, 0), Desc(2, 20, 3, 9, 0, 0), Desc(1, 16, 161, 2, 0, 0),
     Desc(1, 16, 162, 6, 42, 0), Desc(1, 16, 160, 5, 0, 0), Desc(50, 16, 2, 3, 22, 0)}

DescLists == UNION {[1..n -> DescPool] : n \in 0..MaxDescs}

\* the length field of the header for n descriptors delivered: the length of
\* the data, 5 bytes more, one descriptor less, or no data
TocLens(n) == {2 + 11 * n, 2 + 11 * n + 5, 0} \cup (IF n > 0 THEN {2 + 11 * (n - 1)} ELSE {})

Drives ==
    {[lib |-> lib, open |-> TRUE, cmd |-> TRUE, toc_len |-> len, hdr_last |-> hl, descs |-> ds] :
        lib \in {l \in LibdiscidPool : l.ok}, hl \in {1, 2},
        <<ds, len>> \in {<<ds, len>> \in DescLists \X (0..(2 + 11 * MaxDescs + 5)) :
                           len \in TocLens(Len(ds))}}
    \cup {[lib |-> lib, open |-> op, cmd |-> FALSE, toc_len |-> 0, hdr_last |-> 1, descs |-> <<>>] :
            lib \in LibdiscidPool, op \in BOOLEAN}

InitRtoc ==
    /\ rpc = "libdiscid"
    /\ rplat \in {"linux", "macos"}
    /\ rdrive \in Drives
    /\ ri = 0
    /\ ftoc = <<>>
    /\ haveFull = FALSE
    /\ rtoc = <<>>
    /\ rret = "none"
    /\ sidx = {}
    /\ IdleColl /\ IdleIsrc /\ IdleOpen /\ IdleDisc /\ IdleToc /\ IdleCdt

NextRtoc ==
    \/ LibdiscidFail
    \/ LibdiscidRead
    \/ FullTocUnread
    \/ FullTocHeader
    \/ FullTocDescriptor
    \/ FullTocValidate
    \/ BuildToc

SpecRtoc == InitRtoc /\ [][NextRtoc]_vars

-----------------------------------------------------------------------------
(* Properties of the collector and of the scan *)

\* The ISRC format predicate of the specification: 12 characters, 2 uppercase
\* letters, 3 alphanumerics, 2 digits, 5 digits, not all zeros.
IsrcFormat(x) ==
    /\ Len(x) = 12
    /\ \A i \in 1..2 : x[i] \in 65..90
    /\ \A i \in 3..5 : x[i] \in (65..90) \cup (97..122) \cup (48..57)
    /\ \A i \in 6..12 : x[i] \in 48..57
    /\ \E i \in 1..12 : x[i] # 48

TrackIndices == 1..toc.track_count

\* C1: after isrc_read_disc returns, every track whose isrc is non-empty
\* holds a 12-character string that passes the ISRC format predicate, on
\* every scan path (the drive-based READ SUB-CHANNEL path included).
C1_FormatGate ==
    ipc = "done" =>
        \A i \in TrackIndices :
            toc.tracks[i].isrc # <<>> => IsrcFormat(toc.tracks[i].isrc)

\* The part of C1 that holds: on the paths that go through the collector.
C1_FormatGateBatch ==
    (ipc = "done" /\ mode # "fallback") =>
        \A i \in TrackIndices :
            toc.tracks[i].isrc # <<>> => IsrcFormat(toc.tracks[i].isrc)

C1_Witness ==
    /\ ipc = "done" /\ mode # "fallback"
    /\ disc.layout \in {"invalid", "junkA"}
    /\ \E i \in TrackIndices : toc.tracks[i].isrc # <<>>

\* the count m of the top candidate and the highest count s among the others
TopIndex(cands) ==
    CHOOSE i \in 1..Len(cands) :
        /\ \A j \in 1..Len(cands) : cands[j].count <= cands[i].count
        /\ \A j \in 1..(i - 1) : cands[j].count < cands[i].count

NextHighest(cands) ==
    LET others == {cands[j].count : j \in (1..Len(cands)) \ {TopIndex(cands)}}
    IN  IF others = {} THEN 0 ELSE CHOOSE v \in others : \A w \in others : w <= v

\* C2: collector_get_majority returns the top candidate iff its count m is at
\* least 2 and the next-highest count s is 0 or m >= 2*s; in every other state
\* (no candidate, m < 2, m < 2*s, a tie for the top) it returns no winner.
C2_StrongMajority ==
    winner.called =>
        IF coll.candidates = <<>> THEN winner.isrc = NoWinner
        ELSE LET m == coll.candidates[TopIndex(coll.candidates)].count
                 s == NextHighest(coll.candidates)
             IN  IF m >= 2 /\ (s = 0 \/ m >= 2 * s)
                 THEN winner.isrc = coll.candidates[TopIndex(coll.candidates)].isrc
                 ELSE winner.isrc = NoWinner

\* a call that returned a winner over a second candidate, and a call on a tie
C2_Witness ==
    /\ winner.called
    /\ Len(coll.candidates) >= 2
    /\ winner.isrc # NoWinner
    /\ NextHighest(coll.candidates) >= 2

C2_WitnessTie ==
    /\ winner.called
    /\ Len(coll.candidates) >= 2
    /\ coll.candidates[1].count = 3 /\ coll.candidates[2].count = 3
    /\ winner.isrc = NoWinner

ProbeMissed == ipc = "done" /\ mode = "probe" /\ ~hasIsrc

IsProbe(i) == \E j \in 1..Len(probes) : probes[j] = i

\* C3 as stated: when the probe phase runs and no probe yields an ISRC,
\* isrc_read_disc issues no Q read for any track other than the probes, closes
\* the session, returns 0 and leaves every isrc empty.
C3_ProbeMissStops ==
    ProbeMissed =>
        /\ \A e \in qlog : IsProbe(e.track)
        /\ sess = 0
        /\ iret = 0
        /\ \A i \in TrackIndices : toc.tracks[i].isrc = <<>>

\* C3 amended: the only Q read outside the probe tracks is the 10-frame batch
\* test the macOS build makes on the first audio track before the probes; after
\* the three misses no further read is issued, the session is closed, 0 is
\* returned and every isrc is empty.
C3_ProbeMissStopsAmended ==
    ProbeMissed =>
        /\ \A e \in qlog :
              \/ e.phase = "probe" /\ IsProbe(e.track)
              \/ /\ e.phase = "test" /\ platform = "macos"
                 /\ e.track = FirstAudio(toc.tracks)
        /\ sess = 0
        /\ iret = 0
        /\ \A i \in TrackIndices : toc.tracks[i].isrc = <<>>

C3_Witness ==
    /\ ProbeMissed
    /\ platform = "macos"
    /\ \E e \in qlog : e.phase = "test" /\ ~IsProbe(e.track)
    /\ \E i \in TrackIndices : IsAudio(toc.tracks[i]) /\ ~IsProbe(i) /\ i # FirstAudio(toc.tracks)

NonShortAudio(tracks) ==
    Cardinality({i \in 1..Len(tracks) : IsAudio(tracks[i]) /\ ~is_short_track(tracks[i])})

\* every audio track went through the per-track procedure
AllAudioScanned ==
    \A i \in TrackIndices :
        IsAudio(toc.tracks[i]) => \E e \in qlog : e.track = i /\ e.phase # "test"

\* the scan ran with batch reads (the session opened, no drive-based fallback)
BatchScanDone == ipc = "done" /\ mode \in {"probe", "full"}

\* C4 as stated: the probe phase is entered only when the TOC has at least 5
\* non-short audio tracks; with fewer, the per-track procedure is run on every
\* audio track.
C4_ProbeThreshold ==
    /\ mode = "probe" => NonShortAudio(toc.tracks) >= 5
    /\ (BatchScanDone /\ NonShortAudio(toc.tracks) < 5) => AllAudioScanned

\* C4 amended: the probe phase is entered exactly when the TOC has at least 5
\* audio tracks of which at least 3 are non-short; with fewer of either, the
\* per-track procedure is run on every audio track.
C4_ProbeThresholdAmended ==
    /\ mode = "probe" =>
          AudioCount(toc.tracks) >= 5 /\ NonShortAudio(toc.tracks) >= 3
    /\ mode = "full" =>
          AudioCount(toc.tracks) < 5 \/ NonShortAudio(toc.tracks) < 3
    /\ (BatchScanDone /\ (AudioCount(toc.tracks) < 5 \/ NonShortAudio(toc.tracks) < 3))
          => AllAudioScanned

C4_Witness ==
    /\ ProbeMissed
    /\ NonShortAudio(toc.tracks) = 3
    /\ ~AllAudioScanned

\* how many frames of a track of this length carry `frame` under a layout
FramesOf(layout, tr, frame) ==
    Cardinality({rel \in 0..(tr.length - 1) : LayoutFrame(layout, FALSE, tr, rel) = frame})

\* two distinct valid ISRCs in equal proportion among the ADR=3 frames
EqualProportion(tr) ==
    /\ disc.layout \in {"altAB", "skewAB"}
    /\ FramesOf(disc.layout, tr, FrameA) > 0
    /\ FramesOf(disc.layout, tr, FrameA) = FramesOf(disc.layout, tr, FrameB)

Scanned(i) == \E e \in qlog : e.track = i /\ e.phase # "test"

\* C5 as stated: when two distinct valid ISRCs occur in equal proportion among
\* the ADR=3 frames of a track, the per-track procedure ends with the track's
\* ISRC empty, whatever the length and whichever frames are sampled.
C5_EqualSplitEmpty ==
    ipc = "done" =>
        \A i \in TrackIndices :
            (Scanned(i) /\ EqualProportion(toc.tracks[i])) => toc.tracks[i].isrc = <<>>

\* the collector holds exactly two candidates, with equal counts
EqualSplit(c) ==
    /\ Len(c.candidates) = 2
    /\ c.candidates[1].count = c.candidates[2].count

\* C5 amended: when the frames the reads sampled hold the two ISRCs in equal
\* number (the collector at the last majority decision has equal counts), the
\* per-track procedure leaves the track's ISRC empty, on the short-track scan,
\* the initial tranches and the rescue tranche alike.
C5_EqualSplitEmptyAmended ==
    \A i \in TrackIndices :
        (Scanned(i) /\ EqualSplit(decided[i])) => toc.tracks[i].isrc = <<>>

C5_Witness ==
    \E i \in TrackIndices :
        /\ Scanned(i)
        /\ ~is_short_track(toc.tracks[i])
        /\ EqualSplit(decided[i])
        /\ decided[i].total_read = (INITIAL_TRANCHES + RESCUE_TRANCHES) * FRAMES_PER_TRANCHE
        /\ toc.tracks[i].isrc = <<>>


\* the handles of one kind of entry of the history, in order
Handles(log, op) ==
    LET sel == SelectSeq(log, LAMBDA e : e.op = op)
    IN  [i \in 1..Len(sel) |-> sel[i].h]

Reverse(q) == [i \in 1..Len(q) |-> q[Len(q) + 1 - i]]

\* scsi_open has returned NULL, or scsi_close has returned
OpenSettled == opc \in {"failed", "closed"}

\* C6: once scsi_open has failed or scsi_close has returned, every handle that
\* was acquired has been released exactly once, in reverse order of acquisition
C6_ReleasedOnceInReverse ==
    OpenSettled => Handles(olog, "rel") = Reverse(Handles(olog, "acq"))

\* C6, the case the code gets right: when the authoring service is another
\* object than the media service, the releases mirror the acquisitions
C6_ReleasedWhenDistinct ==
    (OpenSettled /\ dev.authoring_service # dev.media_service)
        => Handles(olog, "rel") = Reverse(Handles(olog, "acq"))

\* C6: a session through Disk Arbitration was opened and closed
C6_Witness ==
    /\ opc = "closed"
    /\ dev.da_claimed
    /\ Len(Handles(olog, "acq")) = 9

\* C6: the media service is itself the authoring service and its second
\* reference is still held after the close
C6_Leak ==
    /\ opc = "closed"
    /\ dev.authoring_service = dev.media_service
    /\ "authoring" \notin {Handles(olog, "rel")[i] : i \in 1..Len(Handles(olog, "rel"))}

PhaseRank(ph) ==
    CASE ph = "toc" -> 1 [] ph = "mcn" -> 2 [] ph = "isrc" -> 3 [] OTHER -> 4

\* everything sent to the drive for one phase comes after everything sent for
\* the phases before it
PhasesInOrder ==
    \A i, j \in 1..Len(dlog) :
        i < j => PhaseRank(dlog[i].ph) <= PhaseRank(dlog[j].ph)

\* before entry j of the history every session of phase ph was closed
Completed(ph, j) ==
    Cardinality({i \in 1..j : dlog[i].ph = ph /\ dlog[i].op = "open"})
        = Cardinality({i \in 1..j : dlog[i].ph = ph /\ dlog[i].op = "close"})

\* a read that fails device_read_toc: device_read_disc returned non-zero
TocFailed == dpc = "done" /\ dret # 0

\* C7: in device_read_disc the TOC read completes before any Q-subchannel read,
\* every Q-subchannel read completes before the CD-Text read, at most one
\* device session is open at any moment, and after a failed TOC read nothing
\* is sent to the drive for the MCN, the ISRCs or the CD-Text
C7_PhaseOrder ==
    /\ PhasesInOrder
    /\ dsess <= 1
    /\ \A j \in 1..Len(dlog) :
         /\ dlog[j].ph = "isrc" => Completed("toc", j)
         /\ dlog[j].ph = "cdtext" => Completed("toc", j) /\ Completed("isrc", j)
    /\ (TocFailed => \A i \in 1..Len(dlog) : dlog[i].ph = "toc")

\* C7: an acquisition with all flags has read the TOC, the Q-subchannel and
\* the CD-Text and returned
C7_Witness ==
    /\ dpc = "done" /\ dret = 0
    /\ \A ph \in {"toc", "isrc", "cdtext"} :
         \E i \in 1..Len(dlog) : dlog[i].ph = ph /\ dlog[i].op = "cmd"

\* C7: a TOC read failed after its commands were sent
C7_WitnessTocFail ==
    /\ TocFailed /\ dlog # <<>> /\ flags = READ_MCN + READ_ISRC + READ_CDTEXT

\* C8: during one acquisition every command is sent with exclusive access
\* held, and the drive is never closed between two commands
C8_ExclusiveThroughout ==
    /\ \A i \in 1..Len(dlog) : dlog[i].op = "cmd" => dlog[i].excl
    /\ \A i, j, k \in 1..Len(dlog) :
         (i < j /\ j < k /\ dlog[i].op = "cmd" /\ dlog[k].op = "cmd")
             => dlog[j].op # "close"

\* C8: a command was sent without exclusive access, on a session of scsi_open
C8_ScsiWithoutExclusive ==
    \E i \in 1..Len(dlog) :
        dlog[i].op = "cmd" /\ dlog[i].via = "scsi" /\ ~dlog[i].excl

\* C8: the session was closed between the commands of two phases
C8_ReleasedBetweenPhases ==
    \E i, j, k \in 1..Len(dlog) :
        /\ i < j /\ j < k
        /\ dlog[i].op = "cmd" /\ dlog[i].ph = "isrc" /\ dlog[i].excl
        /\ dlog[j].op = "close"
        /\ dlog[k].op = "cmd" /\ dlog[k].ph = "cdtext"

\* toc_parse returned 0
ParseOk == tpc = "parsed" /\ parsed.ret = 0

Monotonic(t) ==
    \A i, j \in 1..t.track_count : i < j => t.tracks[i].offset < t.tracks[j].offset

LeadoutDominates(t) == t.leadout > t.tracks[t.track_count].offset

\* C9: every toc_t of a successful toc_parse, in any of the four formats and
\* for any text, has strictly increasing offsets and a leadout greater than
\* the offset of the last track
C9_ParsedTocOrdered ==
    ParseOk => Monotonic(parsed.toc) /\ LeadoutDominates(parsed.toc)

\* C9 for the three formats whose parser compares the leadout with the last
\* offset
C9_ParsedTocOrderedChecked ==
    (ParseOk /\ format # "freedb")
        => Monotonic(parsed.toc) /\ LeadoutDominates(parsed.toc)

\* C9: a text given by the user was parsed with success
C9_Witness == ParseOk /\ tocIn = <<>> /\ format # "freedb" /\ parsed.toc.track_count = 2

\* C9: a FreeDB text was parsed with success into a toc_t whose leadout is
\* not after its last track
C9_FreeDBLeadout ==
    ParseOk /\ format = "freedb" /\ ~LeadoutDominates(parsed.toc)

\* a toc_t was rendered and the text parsed
Rendered == tpc = "parsed" /\ tocIn # <<>>

\* the fields of a toc_t the round trip is about
SameToc(a, b) ==
    /\ a.first_track = b.first_track
    /\ a.last_track = b.last_track
    /\ a.track_count = b.track_count
    /\ a.audio_count = b.audio_count
    /\ a.data_count = b.data_count
    /\ a.leadout = b.leadout
    /\ a.audio_leadout = b.audio_leadout
    /\ \A i \in 1..a.track_count :
         /\ a.tracks[i].number = b.tracks[i].number
         /\ a.tracks[i].offset = b.tracks[i].offset
         /\ a.tracks[i].type = b.tracks[i].type

\* FreeDB's seconds/frames quantization of a leadout
Quantized(leadout) ==
    ((leadout + PREGAP_FRAMES) \div FRAMES_PER_SECOND) * FRAMES_PER_SECOND - PREGAP_FRAMES

DataOnOneSide(t) ==
    ~ \E i, j, k \in 1..t.track_count :
          /\ i < j /\ j < k
          /\ t.tracks[i].type = "data" /\ t.tracks[j].type = "audio"
          /\ t.tracks[k].type = "data"

C10_WitnessQuantized ==
    /\ Rendered /\ format = "freedb"
    /\ tocIn[1].first_track = 1 /\ tocIn[1].data_count = 0
    /\ parsed.toc.leadout # tocIn[1].leadout

\* C10: an Enhanced toc_t came back from the raw text with every track audio
C10_TypesLost ==
    /\ Rendered /\ format = "raw" /\ parsed.ret = 0
    /\ tocIn[1].data_count > 0 /\ parsed.toc.data_count = 0

-----------------------------------------------------------------------------
(* Detection of the dialect of a rendered text *)

\* toc_detect_format has reported on the text rendered from a toc_t
DetectedRendered == tocIn # <<>> /\ detected # "none"

\* C11: toc_detect_format on the text rendered from a valid toc_t in a
\* dialect reports that dialect or indeterminate, never another dialect and
\* never invalid
C11_DetectRendered ==
    DetectedRendered => detected \in {format, "indeterminate"}

\* C11: the same for the toc_t values whose first track is track 1
C11_DetectRenderedFromOne ==
    (DetectedRendered /\ tocIn[1].first_track = 1) => detected = format

\* C11: the MusicBrainz text of a one-track toc_t numbered from 2 was
\* reported as FreeDB
C11_WrongDialect ==
    /\ DetectedRendered /\ format = "musicbrainz" /\ detected = "freedb"
    /\ tocIn[1].first_track = 2 /\ tocIn[1].track_count = 1

\* C11: the AccurateRip text of a toc_t numbered from 2 was reported invalid
C11_ReportedInvalid ==
    /\ DetectedRendered /\ format = "accuraterip" /\ detected = "invalid"
    /\ tocIn[1].first_track = 2

-----------------------------------------------------------------------------
(* The identifiers *)

\* the text is the MusicBrainz text of the standard 12-track CD
IsStandardCd == tocIn = <<>> /\ text = StandardCdText /\ format = "musicbrainz"

\* "9a0b750c"
Id9a0b750c == <<57, 97, 48, 98, 55, 53, 48, 99>>

\* C12: for the 12-track MusicBrainz text, detection reports MusicBrainz,
\* parsing yields 12 tracks, all audio, and calc_freedb_id of the parsed toc_t
\* is 9a0b750c
C12_StandardCd ==
    IsStandardCd =>
        /\ detected \in {"none", "musicbrainz"}
        /\ tpc = "parsed" =>
               /\ parsed.ret = 0
               /\ parsed.toc.track_count = 12 /\ parsed.toc.audio_count = 12
        /\ tpc = "ids" =>
               /\ info[1].toc.track_count = 12 /\ info[1].toc.audio_count = 12
               /\ info[1].freedb = Id9a0b750c

\* "b10a550c": n = 177 = 0xb1, t = 2647 - 2 = 2645 = 0xa55, 12 tracks = 0x0c
Idb10a550c == <<98, 49, 48, 97, 53, 53, 48, 99>>

\* C12, amended: for the 12-track MusicBrainz text, detection reports
\* MusicBrainz, parsing yields 12 tracks, all audio, and calc_freedb_id of the
\* parsed toc_t is b10a550c
C12_StandardCdAmended ==
    IsStandardCd =>
        /\ detected \in {"none", "musicbrainz"}
        /\ tpc = "parsed" =>
               /\ parsed.ret = 0
               /\ parsed.toc.track_count = 12 /\ parsed.toc.audio_count = 12
        /\ tpc = "ids" =>
               /\ info[1].toc.track_count = 12 /\ info[1].toc.audio_count = 12
               /\ info[1].freedb = Idb10a550c

\* C12: the text was detected and parsed and its ids were calculated
C12_Witness ==
    /\ IsStandardCd /\ detected = "musicbrainz" /\ tpc = "ids"
    /\ info[1].toc.track_count = 12
    /\ info[1].freedb = Idb10a550c

\* calculate_ids has run; IdToc is the toc_t it was given
IdsDone == tpc = "ids"
IdToc == info[1].toc

\* the indices of the audio tracks of a toc_t
AudioIdx(t) == {i \in 1..t.track_count : t.tracks[i].type = "audio"}

\* the 1-based position of track i among the audio tracks
AudioPos(t, i) == Cardinality({j \in AudioIdx(t) : j <= i})

\* X1: the LBAs of the audio tracks among the first n tracks, mod 2^32
RECURSIVE X1Upto(_, _)
X1Upto(t, n) ==
    IF n = 0 THEN U32(0)
    ELSE U32Add(X1Upto(t, n - 1),
                IF n \in AudioIdx(t) THEN U32(t.tracks[n].offset) ELSE U32(0))

\* X2: max(lba, 1) times the audio position, over the audio tracks among the
\* first n tracks, mod 2^32
RECURSIVE X2Upto(_, _)
X2Upto(t, n) ==
    IF n = 0 THEN U32(0)
    ELSE U32Add(X2Upto(t, n - 1),
                IF n \in AudioIdx(t)
                THEN U32Mul(U32(Max2(t.tracks[n].offset, 1)), AudioPos(t, n))
                ELSE U32(0))

\* NNN-X1-X2-X3 as the claim gives it, from the number of audio tracks
AccurateRipIdOf(t, freedb) ==
    LET na == Cardinality(AudioIdx(t))
    IN  Pad3(na) \o <<45>>
            \o Hex8(U32Add(X1Upto(t, t.track_count), U32(t.leadout))) \o <<45>>
            \o Hex8(U32Add(X2Upto(t, t.track_count), U32Mul(U32(t.leadout), na + 1)))
            \o <<45>> \o freedb

\* C13: the AccurateRip id is NNN-X1-X2-X3 with NNN the number of audio
\* tracks, X1 the audio LBAs plus the disc leadout, X2 the audio LBAs (at least
\* 1) times their position among the audio tracks plus the disc leadout times
\* the audio count plus one, both mod 2^32, and X3 the FreeDB id
C13_AccurateRipId ==
    IdsDone => info[1].accuraterip = AccurateRipIdOf(IdToc, info[1].freedb)

\* C13: the same for every toc_t whose audio_count is the number of its tracks
\* typed audio
C13_AccurateRipIdCounted ==
    (IdsDone /\ IdToc.audio_count = Cardinality(AudioIdx(IdToc)))
        => info[1].accuraterip = AccurateRipIdOf(IdToc, info[1].freedb)

\* C13: the id of the text "3 1 2 0 1000 2000 3000" starts with 001 though two
\* of its tracks were typed audio and summed
C13_CountMismatch ==
    /\ IdsDone /\ text = OneAudioOfThreeText /\ format = "accuraterip"
    /\ SubSeq(info[1].accuraterip, 1, 3) = <<48, 48, 49>>
    /\ Cardinality(AudioIdx(IdToc)) = 2

\* C13: the Mixed disc with data track 1 and 8 audio tracks got NNN = 008 and
\* its first audio track the factor 1
C13_WitnessMixed ==
    /\ IdsDone /\ tocIn = <<MixedNineToc>> /\ IdToc = MixedNineToc
    /\ SubSeq(info[1].accuraterip, 1, 3) = <<48, 48, 56>>
    /\ AudioPos(IdToc, 2) = 1
    /\ info[1].accuraterip = AccurateRipIdOf(IdToc, info[1].freedb)

\* C13: the id of a toc_t whose audio LBAs sum past 2^31 was calculated
C13_WitnessWrap ==
    /\ IdsDone /\ text = LargeLbaText /\ format = "accuraterip"
    /\ IdToc.tracks[1].offset > 2147483647 - IdToc.tracks[2].offset
    /\ info[1].accuraterip = AccurateRipIdOf(IdToc, info[1].freedb)

\* the number of the last audio track, and whether data tracks trail it
LastAudioNumber(t) ==
    LET a == AudioIdx(t) IN t.tracks[CHOOSE i \in a : \A j \in a : j <= i].number
DataTrails(t) == LastAudioNumber(t) < t.last_track

\* the text the claim gives for a toc_t: first, last', leadout' + 150, and 99
\* slots, slot k holding the offset of track k + 150 for first <= k <= last'
HashedTextOf(t) ==
    LET lastp    == IF DataTrails(t) THEN LastAudioNumber(t) ELSE t.last_track
        leadoutp == IF DataTrails(t) THEN t.audio_leadout ELSE t.leadout
        slot(k)  == IF k >= t.first_track /\ k <= lastp
                       /\ \E i \in 1..t.track_count : t.tracks[i].number = k
                    THEN t.tracks[CHOOSE i \in 1..t.track_count :
                                      t.tracks[i].number = k].offset + PREGAP_FRAMES
                    ELSE 0
    IN  Hex2X(t.first_track) \o Hex2X(lastp) \o Hex8X(leadoutp + PREGAP_FRAMES)
            \o Concat([k \in 1..99 |-> Hex8X(slot(k))])

\* calculate_ids ran on a toc_t with an audio track
IdsOfAudio == IdsDone /\ AudioIdx(IdToc) # {}

\* C14: for a toc_t with an audio track, whatever its first track number, the
\* text hashed for the MusicBrainz id is first, last', leadout' + 150 and 99
\* slots with the offsets + 150 of tracks first..last' in the slots of their
\* numbers; last' and leadout' are the last audio track and the audio leadout
\* when data tracks trail, the last track and the disc leadout otherwise
C14_HashedText ==
    IdsOfAudio => info[1].musicbrainz = <<HashedTextOf(IdToc)>>

\* C14: the same for the toc_t values whose first track is track 1
C14_HashedTextFromOne ==
    (IdsOfAudio /\ IdToc.first_track = 1) => info[1].musicbrainz = <<HashedTextOf(IdToc)>>

\* C14: for a toc_t of two tracks numbered 2 and 3, slot 2 of the hashed text
\* is zero and slot 3 holds the offset of track 2
C14_SlotsShifted ==
    /\ IdsOfAudio /\ IdToc.first_track = 2 /\ IdToc.track_count = 2
    /\ IdToc.data_count = 0 /\ IdToc.tracks[1].offset = 33
    /\ SubSeq(info[1].musicbrainz[1], 21, 28) = Hex8X(0)
    /\ SubSeq(info[1].musicbrainz[1], 29, 36) = Hex8X(33 + PREGAP_FRAMES)

\* C14: the text of an Enhanced toc_t numbered from 1 ends at the last audio
\* track with the audio leadout; the text of the Mixed disc holds all 9 tracks
C14_WitnessEnhanced ==
    /\ IdsOfAudio /\ IdToc.first_track = 1 /\ tocIn # <<>> /\ IdToc = tocIn[1]
    /\ DataTrails(IdToc) /\ IdToc.audio_leadout # IdToc.leadout
    /\ IdToc.track_count = 3
    /\ info[1].musicbrainz = <<HashedTextOf(IdToc)>>

C14_WitnessMixed ==
    /\ IdsOfAudio /\ IdToc = MixedNineToc
    /\ SubSeq(info[1].musicbrainz[1], 1, 4) = <<48, 49, 48, 57>>
    /\ info[1].musicbrainz = <<HashedTextOf(IdToc)>>

-----------------------------------------------------------------------------
(* The audio leadout and the disc type *)

\* the data tracks after the last audio track of a toc_t
TrailingData(t) ==
    {i \in 1..t.track_count :
        /\ t.tracks[i].type = "data"
        /\ AudioIdx(t) # {}
        /\ \A j \in AudioIdx(t) : j < i}

\* audio_leadout is the offset of the first data track after the audio tracks
\* when there is one, the leadout otherwise
AudioLeadoutInvariant(t) ==
    IF TrailingData(t) # {}
    THEN t.audio_leadout =
             t.tracks[CHOOSE i \in TrailingData(t) : \A j \in TrailingData(t) : i <= j].offset
    ELSE t.audio_leadout = t.leadout

\* C15: every toc_t read from a device or parsed from a text has its
\* audio_leadout at the first data track that follows the audio tracks, or at
\* the leadout when no data track follows them
C15_AudioLeadout ==
    /\ tocIn # <<>> => AudioLeadoutInvariant(tocIn[1])
    /\ (tpc = "parsed" /\ parsed.ret = 0) => AudioLeadoutInvariant(parsed.toc)

\* C15: the same for the single-session device tocs without a leading data
\* track and for the texts parsed as Raw, MusicBrainz or FreeDB
C15_AudioLeadoutSingleSession ==
    /\ (tocIn # <<>> /\ tocIn[1].last_session = 1 /\ tocIn[1].tracks[1].type = "audio")
           => AudioLeadoutInvariant(tocIn[1])
    /\ (tpc = "parsed" /\ parsed.ret = 0 /\ format # "accuraterip")
           => AudioLeadoutInvariant(parsed.toc)

\* C15: a multi-session toc_t read from the device has the leadout of
\* session 1 as audio_leadout, before the offset of its data track
C15_MultiSession ==
    /\ tocIn # <<>> /\ tocIn[1].last_session = 2 /\ tocIn[1].track_count = 3
    /\ TrailingData(tocIn[1]) = {3}
    /\ tocIn[1].audio_leadout = tocIn[1].tracks[3].offset - SessionGap

\* C15: an AccurateRip text with a trailing data track was parsed and its
\* audio_leadout is the disc leadout
C15_ParsedAccurateRip ==
    /\ tpc = "parsed" /\ format = "accuraterip" /\ parsed.ret = 0
    /\ TrailingData(parsed.toc) # {}
    /\ parsed.toc.audio_leadout = parsed.toc.leadout

\* C15: a single-session Enhanced toc_t has its audio_leadout at its data track
C15_SingleSessionEnhanced ==
    /\ tocIn # <<>> /\ tocIn[1].last_session = 1 /\ TrailingData(tocIn[1]) = {3}
    /\ tocIn[1].tracks[1].type = "audio"
    /\ tocIn[1].audio_leadout = tocIn[1].tracks[3].offset

\* the indices of the data tracks of a toc_t
DataIdx(t) == {i \in 1..t.track_count : t.tracks[i].type = "data"}

\* the disc type agrees with the layout of the tracks
DiscTypeAgrees(t, type) ==
    /\ type = "audio" <=> DataIdx(t) = {}
    /\ type = "mixed" => (1 \in DataIdx(t) /\ \E j \in AudioIdx(t) : j > 1)
    /\ type = "enhanced" => \E j \in AudioIdx(t) : \E i \in DataIdx(t) : j < i
    /\ AudioIdx(t) = {} => type = "unknown"

\* C16: toc_get_disc_type gives Audio exactly for a toc_t without data track,
\* Mixed only when the first track is data and an audio track follows it,
\* Enhanced only when data tracks follow audio tracks, and Unknown for a
\* toc_t of data tracks only
C16_DiscType ==
    IdsDone => DiscTypeAgrees(IdToc, info[1].type)

\* C16: the same for the toc_t values with an audio track
C16_DiscTypeWithAudio ==
    IdsOfAudio => DiscTypeAgrees(IdToc, info[1].type)

\* C16: a toc_t of data tracks only, numbered from 1, was typed Mixed
C16_DataOnlyMixed ==
    /\ IdsDone /\ AudioIdx(IdToc) = {} /\ IdToc.first_track = 1
    /\ info[1].type = "mixed"

\* C16: a toc_t of data tracks only, numbered from 2, was typed Enhanced
C16_DataOnlyEnhanced ==
    /\ IdsDone /\ AudioIdx(IdToc) = {} /\ IdToc.first_track = 2
    /\ info[1].type = "enhanced"

\* C16: the Mixed disc of 9 tracks was typed Mixed, an Enhanced one Enhanced
C16_WitnessMixed ==
    IdsDone /\ IdToc = MixedNineToc /\ info[1].type = "mixed"

C16_WitnessEnhanced ==
    /\ IdsDone /\ IdToc.track_count = 3 /\ DataIdx(IdToc) = {3}
    /\ info[1].type = "enhanced"

-----------------------------------------------------------------------------
(* Failures of the transport during device_read_disc *)

\* device_read_disc has returned
DiscReturned == dpc = "done"

\* the events of the history that are failures of an open or of a command
\* in the phases phs
FailuresIn(phs) == {i \in 1..Len(dlog) : dlog[i].op = "fail" /\ dlog[i].ph \in phs}

\* C20: when the device could not be opened or a command failed during the
\* TOC read, the MCN read or the ISRC scan, device_read_disc returns non-zero
C20_FailureReported ==
    (DiscReturned /\ FailuresIn({"toc", "mcn", "isrc"}) # {}) => dret # 0

\* C20: the same for the failures of the TOC read libdiscid makes
C20_TocFailureReported ==
    (DiscReturned /\ \E i \in FailuresIn({"toc"}) : dlog[i].via = "libdiscid")
        => dret = EX_IOERR

\* C20: the open of the MCN read failed and device_read_disc returned 0
C20_McnFailureLost ==
    /\ DiscReturned /\ dret = 0
    /\ \E i \in FailuresIn({"mcn"}) : i = 1 \/ dlog[i - 1].op # "cmd"

\* C20: the scsi_open of the ISRC scan failed and device_read_disc returned 0
C20_IsrcFailureLost ==
    /\ DiscReturned /\ dret = 0 /\ FailuresIn({"toc", "mcn"}) = {}
    /\ \E i \in FailuresIn({"isrc"}) : dlog[i - 1].op # "cmd"

\* C20: a command of the TOC read failed and device_read_disc returned EX_IOERR
C20_TocFailure ==
    /\ DiscReturned /\ dret = EX_IOERR
    /\ \E i \in FailuresIn({"toc"}) : i > 1 /\ dlog[i - 1].op = "cmd"

-----------------------------------------------------------------------------
(* The CD-Text packs *)

\* the pack the current turn of the loop looks at
CurrentPack == packs[ci + 1]
InPass == cpc \in {"size", "text"} /\ ci < Len(packs)

\* The CRC check of cdtext.c accepts the packs the standard's CRC accepts.
CrcAgrees == InPass => (cdtext_pack_crc_valid(CurrentPack) <=> CrcIntact(CurrentPack))

\* C17: a pack whose stored CRC is not the complement of the CRC-16-CCITT of its
\* bytes 0..15 is discarded: in either pass the turn of the loop that looks at
\* it leaves the accumulators (and so every emitted field), the per-type track
\* cursors, the character set and the track range as they were.
C17_CrcDiscard ==
    [][(InPass /\ ~CrcIntact(CurrentPack))
         => (bstate' = bstate /\ current_track' = current_track)]_vars

\* a damaged title pack was passed over and the fields of the other packs are emitted
C17_Witness ==
    /\ cpc = "done" /\ cret = 0
    /\ \E k \in 1..Len(packs) :
         /\ packs[k].pack_type = CDTEXT_PACK_TITLE /\ PackBlock(packs[k]) = 0
         /\ ~CrcIntact(packs[k])
         /\ \E j \in 1..CDTEXT_TEXT_SIZE : packs[k].text[j] # 0
    /\ \E ix \in 0..1 : cdtext[1].tracks[ix].title # <<>>

\* a damaged size-info pack that names an unsupported charset was passed over:
\* the defaults of block_state_init stay
C17_WitnessSizeInfo ==
    /\ cpc = "done" /\ cret = 0
    /\ \E k \in 1..Len(packs) :
         /\ packs[k].pack_type = CDTEXT_PACK_SIZE_INFO /\ ~CrcIntact(packs[k])
         /\ packs[k].text[1] = CDTEXT_CHARSET_MSJIS
    /\ bstate.charset = CDTEXT_CHARSET_ISO8859_1 /\ bstate.last_track = 99
    /\ cdtext[1].album.album # <<>>

\* the intact sequence-0 size-info packs of block 0 in the stream
SizeInfoAt ==
    {k \in 1..Len(packs) :
       /\ packs[k].pack_type = CDTEXT_PACK_SIZE_INFO /\ PackBlock(packs[k]) = 0
       /\ packs[k].seq_num = 0 /\ CrcIntact(packs[k])}

AlbumFields == {"album", "albumartist", "genre", "lyricist", "composer", "arranger", "comment"}
TrackFields == {"title", "artist", "lyricist", "composer", "arranger", "comment"}

\* every album field and every track field of a cdtext_t is absent
AllAbsent(c) ==
    /\ \A f \in AlbumFields : c.album[f] = <<>>
    /\ \A ix \in 0..(MAX_TRACKS - 1) : \A f \in TrackFields : c.tracks[ix][f] = <<>>

\* C18: when the sequence-0 size-info pack of block 0 carries a charset other
\* than 0x00 and 0x01, cdtext_parse returns 0 and every album field and every
\* track field of the result is absent.
C18_UnsupportedCharset ==
    (cpc = "done" /\ \E k \in SizeInfoAt : packs[k].text[1] \notin {0, 1})
        => (cret = 0 /\ AllAbsent(cdtext[1]))

\* the stream names MS-JIS and holds an intact title pack with text in it
C18_Witness ==
    /\ cpc = "done" /\ cret = 0 /\ AllAbsent(cdtext[1])
    /\ \E k \in SizeInfoAt : packs[k].text[1] = CDTEXT_CHARSET_MSJIS
    /\ \E k \in 1..Len(packs) :
         /\ packs[k].pack_type = CDTEXT_PACK_TITLE /\ PackBlock(packs[k]) = 0
         /\ CrcIntact(packs[k]) /\ packs[k].seq_num = 0 /\ packs[k].text[1] # 0

\* the text packs of the stream, in order
TextPacksOf(stream) == SelectSeq(stream, LAMBDA p : p.pack_type # CDTEXT_PACK_SIZE_INFO)

\* the pack types with a field per track
TrackTextTypes == CDTEXT_PACK_TITLE..CDTEXT_PACK_MESSAGE

\* the stream is one of intact block-0 packs of one per-track text pack type,
\* besides its size-info pack, and its first text pack has seq_num 0
OneTypeStream ==
    /\ \A k \in 1..Len(packs) : PackBlock(packs[k]) = 0 /\ CrcIntact(packs[k])
    /\ TextPacksOf(packs) # <<>>
    /\ TextPacksOf(packs)[1].seq_num = 0
    /\ TextPacksOf(packs)[1].pack_type \in TrackTextTypes
    /\ \A k \in 1..Len(packs) :
         packs[k].pack_type \in {TextPacksOf(packs)[1].pack_type, CDTEXT_PACK_SIZE_INFO}
    /\ \A k \in SizeInfoAt : packs[k].text[1] \in {0, 1}

\* the concatenated payloads
PayloadOf(stream) ==
    Concat([k \in 1..Len(TextPacksOf(stream)) |-> TextPacksOf(stream)[k].text])

\* the i-th NUL-terminated string of a payload, i = 0, 1, ...
NulsBefore(payload, j) == Cardinality({z \in 1..(j - 1) : payload[z] = 0})
NulStringCount(payload) == NulsBefore(payload, Len(payload) + 1)
NulString(payload, i) ==
    LET end == CHOOSE j \in 1..Len(payload) :
                 payload[j] = 0 /\ NulsBefore(payload, j) = i
        start == IF i = 0 THEN 1
                 ELSE 1 + (CHOOSE j \in 1..Len(payload) :
                             payload[j] = 0 /\ NulsBefore(payload, j) = i - 1)
    IN  SubSeq(payload, start, end - 1)

AlbumFieldOf(type) ==
    CASE type = CDTEXT_PACK_TITLE -> "album"
      [] type = CDTEXT_PACK_PERFORMER -> "albumartist"
      [] type = CDTEXT_PACK_SONGWRITER -> "lyricist"
      [] type = CDTEXT_PACK_COMPOSER -> "composer"
      [] type = CDTEXT_PACK_ARRANGER -> "arranger"
      [] type = CDTEXT_PACK_MESSAGE -> "comment"
      [] type = CDTEXT_PACK_GENRE -> "genre"

TrackFieldOf(type) ==
    CASE type = CDTEXT_PACK_TITLE -> "title"
      [] type = CDTEXT_PACK_PERFORMER -> "artist"
      [] type = CDTEXT_PACK_SONGWRITER -> "lyricist"
      [] type = CDTEXT_PACK_COMPOSER -> "composer"
      [] type = CDTEXT_PACK_ARRANGER -> "arranger"
      [] type = CDTEXT_PACK_MESSAGE -> "comment"

\* the field that a pack type fills for track n of a cdtext_t (0: the album)
FieldOf(c, type, n) ==
    IF n = 0 THEN c.album[AlbumFieldOf(type)] ELSE c.tracks[n - 1][TrackFieldOf(type)]

\* the i-th string is the field of track T + i: decoded and normalized, and
\* absent when that leaves nothing
StringIsField(stream, c, charset, i) ==
    FieldOf(c, TextPacksOf(stream)[1].pack_type, TextPacksOf(stream)[1].track_num + i)
        = accum_finish(NulString(PayloadOf(stream), i), charset)

AlbumTitleStream ==
    IntactStream(CDTEXT_PACK_TITLE, 0, AlbumTitlePayload, CDTEXT_CHARSET_ISO8859_1)

\* album = "ALBUM TITLE" and tracks[0].title = "TRACK ONE"
AlbumTitleResult(c) ==
    /\ c.album.album = <<<<65, 76, 66, 85, 77, 32, 84, 73, 84, 76, 69>>>>
    /\ c.tracks[0].title = <<<<84, 82, 65, 67, 75, 32, 79, 78, 69>>>>

\* C19: for a stream of CRC-valid block-0 packs of one text pack type whose
\* first pack has seq_num 0 and track_num T, the i-th NUL-terminated string of
\* the concatenated payloads is emitted as the field of track T+i, for every i;
\* the four-pack title stream with "ALBUM TITLE\0TRACK ONE\0" and the size-info
\* pack for tracks 1..2 gives album = "ALBUM TITLE", tracks[0].title = "TRACK ONE".
C19_StringToTrack ==
    (cpc = "done" /\ OneTypeStream)
        => /\ \A i \in 0..(NulStringCount(PayloadOf(packs)) - 1) :
                TextPacksOf(packs)[1].track_num + i <= MAX_TRACKS
                    => StringIsField(packs, cdtext[1], bstate.charset, i)
           /\ packs = AlbumTitleStream => AlbumTitleResult(cdtext[1])

\* C19, amended: the same for the strings of the tracks up to the last track
\* that the size-info pack declares (99 without one).
C19_StringToTrackInRange ==
    (cpc = "done" /\ OneTypeStream)
        => /\ \A i \in 0..(NulStringCount(PayloadOf(packs)) - 1) :
                TextPacksOf(packs)[1].track_num + i <= Min2(bstate.last_track, MAX_TRACKS)
                    => StringIsField(packs, cdtext[1], bstate.charset, i)
           /\ packs = AlbumTitleStream => AlbumTitleResult(cdtext[1])

\* the four-pack title stream was parsed
C19_Witness ==
    /\ cpc = "done" /\ OneTypeStream /\ packs = AlbumTitleStream
    /\ Len(TextPacksOf(packs)) = 4
    /\ AlbumTitleResult(cdtext[1])

\* a string that spans a pack boundary was emitted, and the one after it
C19_WitnessSpan ==
    /\ cpc = "done" /\ OneTypeStream
    /\ TextPacksOf(packs)[1].track_num = 1
    /\ Len(NulString(PayloadOf(packs), 0)) > CDTEXT_TEXT_SIZE
    /\ cdtext[1].tracks[0].title = <<NulString(PayloadOf(packs), 0)>>
    /\ cdtext[1].tracks[1].title = <<<<88, 89>>>>

\* an empty string took its track: the string after it is the field of the next
C19_WitnessEmpty ==
    /\ cpc = "done" /\ OneTypeStream
    /\ TextPacksOf(packs)[1].track_num = 0
    /\ NulString(PayloadOf(packs), 1) = <<>>
    /\ cdtext[1].tracks[0].title = <<>>
    /\ cdtext[1].tracks[1].title = <<<<67, 68>>>>

\* a string for the track after the declared last track is not emitted
C19_BeyondLastTrack ==
    /\ cpc = "done" /\ OneTypeStream
    /\ bstate.last_track = 2
    /\ \E i \in 0..(NulStringCount(PayloadOf(packs)) - 1) :
         /\ TextPacksOf(packs)[1].track_num + i = 3
         /\ NulString(PayloadOf(packs), i) = <<67>>
         /\ FieldOf(cdtext[1], TextPacksOf(packs)[1].pack_type, 3) = <<>>

-----------------------------------------------------------------------------
(* The full TOC response in device_read_toc *)

\* the drive delivered a full TOC response
ResponseRead == rdrive.lib.ok /\ rdrive.open /\ rdrive.cmd

\* the header length does not match the descriptors delivered
LengthMismatch == rdrive.toc_len # 2 + 11 * Len(rdrive.descs)

SetMin(S) == CHOOSE x \in S : \A y \in S : x <= y
SetMax(S) == CHOOSE x \in S : \A y \in S : x >= y

\* the first and the last track the descriptors give: the track points, the
\* PMIN of A0 and of A1
DescPoints(ds) == {ds[k].point : k \in {k \in 1..Len(ds) : ds[k].point \in 1..99}}
DescFirst(ds) ==
    SetMin({99} \cup DescPoints(ds)
           \cup {ds[k].pmin : k \in {k \in 1..Len(ds) : ds[k].point = 160 /\ ds[k].pmin \in 1..99}})
DescLast(ds) ==
    SetMax({1} \cup DescPoints(ds)
           \cup {ds[k].pmin : k \in {k \in 1..Len(ds) : ds[k].point = 161 /\ ds[k].pmin \in 1..99}})

MalformedFullToc ==
    ResponseRead /\ (LengthMismatch \/ DescFirst(rdrive.descs) > DescLast(rdrive.descs))

\* C21: when the full TOC response is malformed (the header length does not
\* match the descriptors, or the descriptors give first track > last track),
\* device_read_toc returns an error and hands no Toc to the caller.
C21_MalformedFails ==
    (rpc = "done" /\ MalformedFullToc) => (rret # 0 /\ rtoc = <<>>)

\* the descriptors give first track 5 > last track 1, their length matches the
\* header, and device_read_toc returns 0 with the Toc of libdiscid's tracks
C21_TocFromLibdiscid ==
    /\ rpc = "done" /\ ResponseRead /\ ~LengthMismatch
    /\ DescFirst(rdrive.descs) > DescLast(rdrive.descs)
    /\ ~haveFull
    /\ rret = 0 /\ rtoc # <<>>
    /\ rtoc[1].track_count = 2
    /\ rtoc[1].tracks[2].offset = rdrive.lib.offsets[2] - PREGAP_FRAMES

\* the header length is 5 bytes more than the descriptors and the full TOC is
\* taken as read
C21_LengthIgnored ==
    /\ rpc = "done" /\ ResponseRead
    /\ rdrive.toc_len = 2 + 11 * Len(rdrive.descs) + 5
    /\ haveFull /\ rret = 0 /\ rtoc # <<>>

\* C25: after a device TOC read, last_session and the session number of every
\* track lie in 1..10, and every index used on the 10-entry session-leadout
\* table lies in 0..9.
C25_SessionsInRange ==
    (rpc = "done" /\ rret = 0)
        => /\ rtoc[1].last_session \in 1..10
           /\ \A i \in 1..rtoc[1].track_count : rtoc[1].tracks[i].session \in 1..10
           /\ sidx \subseteq 0..9

\* a track descriptor names session 50 and the track of the Toc has session 50
C25_TrackSession50 ==
    /\ rpc = "done" /\ rret = 0 /\ rplat = "linux"
    /\ rtoc[1].last_session \in 1..10
    /\ \E i \in 1..rtoc[1].track_count : rtoc[1].tracks[i].session = 50

\* read_full_toc_ioctl sets last_session to 50 and device_read_toc reads
\* session_leadouts[49]
C25_IndexPastTable ==
    /\ rpc = "done" /\ rret = 0 /\ rplat = "macos"
    /\ rtoc[1].last_session = 50
    /\ 49 \in sidx

-----------------------------------------------------------------------------
(* The two exclusive-access acquisitions of scsi_open *)

\* the answers of ObtainExclusiveAccess that are failures and not transient
OtherError(ioret) ==
    ioret \notin {"none", "kIOReturnSuccess", "kIOReturnBusy", "kIOReturnNotReady"}

\* re-attempts inside one acquisition follow only Busy or NotReady and the
\* 500 ms wait
RetriesOnlyTransient ==
    /\ excl.retried \subseteq {"kIOReturnBusy", "kIOReturnNotReady"}
    /\ ~excl.unwaited

\* scsi_open has returned, a device or NULL
OpenReturned == oret # "none"

\* C22 as stated: each acquisition re-attempts only after Busy or NotReady and
\* after the wait, makes at most 20 attempts, and after any other error the
\* open has failed and no further ObtainExclusiveAccess call is made.
C22_OtherErrorFailsOpen ==
    /\ RetriesOnlyTransient
    /\ excl.direct <= 20 /\ excl.claimed <= 20
    /\ ~excl.afterOther
    /\ OtherError(excl.last) => opc = "failed" /\ oret = "NULL"

\* C22 corrected: each acquisition re-attempts only after Busy or NotReady
\* and after the 500 ms wait; the direct acquisition makes at most 10 attempts
\* and after any other error, or after the tenth transient one, goes on to
\* Disk Arbitration and the second acquisition; the second makes at most 20
\* attempts and after any other error, or after the twentieth transient one,
\* the open has failed; scsi_open always returns.
C22_Acquisitions ==
    /\ [](/\ RetriesOnlyTransient
          /\ excl.direct <= initial_retries /\ excl.claimed <= exclusive_retries
          /\ excl.loop = "direct" /\ OtherError(excl.last) => opc # "direct"
          /\ excl.loop = "direct" /\ excl.direct = initial_retries => opc # "direct"
          /\ excl.loop = "claimed" /\ OtherError(excl.last)
                => opc = "failed" /\ oret = "NULL"
          /\ excl.loop = "claimed" /\ excl.claimed = exclusive_retries
                => opc \in {"failed", "open", "closed"})
    /\ <>OpenReturned

\* the direct acquisition was refused with an error that is not transient, the
\* second one waited through busy answers and then succeeded
C22_Witness ==
    /\ excl.afterOther
    /\ excl.direct >= 2 /\ excl.claimed >= 2
    /\ "kIOReturnBusy" \in excl.retried
    /\ excl.loop = "claimed" /\ excl.last = "kIOReturnSuccess"
    /\ oret = "dev"

\* the second acquisition used all its attempts and the open failed
C22_WitnessExhausted ==
    /\ excl.claimed = exclusive_retries /\ excl.direct = initial_retries
    /\ excl.last = "kIOReturnNotReady"
    /\ opc = "failed" /\ oret = "NULL"

-----------------------------------------------------------------------------
(* The short-track scan of read_track_isrc *)

\* read_track_isrc has run on track i, an audio track below the threshold
ShortScanned(i) ==
    /\ i \in DOMAIN treads /\ treads[i] # <<>>
    /\ IsAudio(toc.tracks[i]) /\ is_short_track(toc.tracks[i])

\* the frame at LBA a was handed to the frame loop by one of the reads of track i
Offered(i, a) ==
    \E j \in 1..Len(treads[i]) :
        \E r \in {treads[i][j]} :
            /\ r.lba <= a /\ a - r.lba < r.n
            /\ Written(r, a - r.lba)

\* the disc holds at LBA a an ADR=3 frame with a valid ISRC
ValidIsrcFrame(a) ==
    \E q \in {decode_q_buffer(RawQ(disc, toc.tracks, a))} :
        q.crc_valid /\ q.has_isrc /\ isrc_validate(q.isrc)

\* C23 as stated: on a drive that answers every command, a track below
\* SHORT_TRACK_THRESHOLD is scanned with a single batch read from its offset
\* for its whole length, after which every valid ADR=3 frame of the track has
\* been offered to the collector.
C23_ShortTrackEveryFrame ==
    \A i \in DOMAIN treads :
        (ShortScanned(i) /\ disc.drive = "ok") =>
            /\ Len(treads[i]) = 1
            /\ treads[i][1].lba = toc.tracks[i].offset
            /\ treads[i][1].req = toc.tracks[i].length
            /\ \A k \in 0..(toc.tracks[i].length - 1) :
                   ValidIsrcFrame(toc.tracks[i].offset + k)
                       => Offered(i, toc.tracks[i].offset + k)

\* on Linux the read of a short track stopped at 256 frames: the track got
\* the ISRC of its first frames although its last frames, never read, hold
\* another one as often
C23_LateFramesMissed ==
    /\ platform = "linux" /\ disc.layout = "skewAB" /\ disc.drive = "ok"
    /\ \E i \in DOMAIN treads :
         /\ ShortScanned(i)
         /\ treads[i][1].n = LINUX_BATCH_LIMIT
         /\ toc.tracks[i].length > LINUX_BATCH_LIMIT
         /\ toc.tracks[i].isrc = ISRC_A
         /\ decided[i].total_read = LINUX_BATCH_LIMIT
         /\ decode_q_buffer(RawQ(disc, toc.tracks,
                toc.tracks[i].offset + toc.tracks[i].length - 1)).isrc = ISRC_B

\* the same track read in full (macOS) gets no ISRC
C23_FullReadUndecided ==
    /\ platform = "macos" /\ disc.layout = "skewAB" /\ disc.drive = "ok"
    /\ \E i \in DOMAIN treads :
         /\ ShortScanned(i)
         /\ treads[i][1].n = toc.tracks[i].length
         /\ toc.tracks[i].isrc = <<>>

-----------------------------------------------------------------------------
(* The probe tracks *)

\* the eligible list of select_probe_tracks: the audio tracks that are not short
Eligible ==
    SelectSeq([i \in 1..Len(toc.tracks) |-> i],
              LAMBDA i : toc.tracks[i].type = "audio" /\ ~is_short_track(toc.tracks[i]))

\* the probe phase runs or has run
ProbePhaseRuns == ipc \in {"probe", "remaining", "done"} /\ Len(probes) = PROBE_COUNT

\* C24: whenever the probe phase runs, the three probe tracks are pairwise
\* distinct audio tracks that are not short, and none is the first or the
\* last entry of the eligible list.
C24_ProbesDistinctInner ==
    ProbePhaseRuns =>
        /\ \A j, k \in 1..PROBE_COUNT : j # k => probes[j] # probes[k]
        /\ \A j \in 1..PROBE_COUNT :
             /\ toc.tracks[probes[j]].type = "audio"
             /\ ~is_short_track(toc.tracks[probes[j]])
             /\ probes[j] # Eligible[1]
             /\ probes[j] # Eligible[Len(Eligible)]

\* with three eligible tracks among five audio tracks the second and third
\* probe are the same track, the last eligible one, and it was scanned twice
C24_ProbedTwice ==
    /\ ipc = "probe" /\ idx > PROBE_COUNT
    /\ Len(Eligible) = 3 /\ AudioCount(toc.tracks) >= MIN_TRACKS_FOR_PROBE
    /\ probes[2] = probes[3]
    /\ probes[3] = Eligible[3]
    /\ [phase |-> "probe", track |-> probes[3]] \in qlog

\* with four eligible tracks the probes are distinct and the third is the
\* last eligible track
C24_LastEligibleProbed ==
    /\ ProbePhaseRuns
    /\ Len(Eligible) = 4
    /\ probes[3] = Eligible[4]
    /\ probes[1] # probes[2] /\ probes[2] # probes[3]

-----------------------------------------------------------------------------
(* The return value of scsi_read_q_subchannel_batch and the caller's loop *)

\* the entries 0..n-1 the caller loops over are the entries the call wrote
LoopSeesWritten(r) == \A e \in 0..(r.req - 1) : Written(r, e) <=> e < r.n

\* C26: for every batch read of read_track_isrc that returns n, each of the
\* entries 0..n-1 of the output array was written by the read and no entry at
\* an index >= n was, on both platforms and whatever the drive returned.
C26_LoopSeesFramesRead ==
    \A i \in DOMAIN treads :
        \A j \in 1..Len(treads[i]) : LoopSeesWritten(treads[i][j])

\* macOS, a drive that transfers half of each chunk: the return value is the
\* number of CRC-valid frames, so the loop over the first n entries reads an
\* entry no chunk wrote and misses a decoded frame at an index >= n
C26_UnwrittenEntrySeen ==
    /\ platform = "macos" /\ disc.drive = "partial"
    /\ \E i \in DOMAIN treads :
         \E j \in 1..Len(treads[i]) :
            \E r \in {treads[i][j]} :
               /\ r.n > 0
               /\ \E e \in 0..(r.n - 1) : ~Written(r, e)
               /\ \E e \in r.n..(r.req - 1) : Written(r, e)

\* Linux, every frame of the batch decoded: the first n entries are the
\* entries written
C26_LinuxWholeBatch ==
    /\ platform = "linux" /\ disc.drive = "ok"
    /\ \E i \in DOMAIN treads :
         /\ Len(treads[i]) > 0
         /\ treads[i][1].n = FRAMES_PER_TRANCHE
         /\ LoopSeesWritten(treads[i][1])

-----------------------------------------------------------------------------
(* The tranche reads of read_track_isrc *)

\* read_track_isrc has run on track i, an audio track at or above the threshold
LongScanned(i) ==
    /\ i \in DOMAIN treads /\ treads[i] # <<>>
    /\ IsAudio(toc.tracks[i]) /\ ~is_short_track(toc.tracks[i])

\* the frames the drive was asked for by the read r: the chunks of the read,
\* one after the other from r.lba
FramesAsked(r) ==
    IF r.chunks = <<>> THEN r.req
    ELSE r.chunks[Len(r.chunks)].base + r.chunks[Len(r.chunks)].bc

\* the read r lies inside the usable region of track t
InsideUsable(r, t) ==
    /\ r.lba >= t.offset + BOOKEND_FRAMES
    /\ r.lba + r.req <= t.offset + t.length - BOOKEND_FRAMES
    /\ r.lba + FramesAsked(r) <= t.offset + t.length - BOOKEND_FRAMES

-----------------------------------------------------------------------------
(* The outcomes of toc_detect_format *)

\* the count predicates of toc_detect_format that the text satisfies
CountMatches(input) ==
    Only({ IF p.count < 3
              \/ \E i \in 1..p.count : p.vals[i] < 0 \/ p.vals[i] > MAX_CD_FRAMES
           THEN {}
           ELSE (IF p.vals[1] + 2 = p.count THEN {"freedb"} ELSE {})
                \cup (IF p.vals[1] + 4 = p.count THEN {"accuraterip"} ELSE {})
                \cup (IF /\ p.count >= 4 /\ p.vals[2] >= p.vals[1]
                         /\ p.vals[2] <= 99 /\ p.vals[1] >= 1
                         /\ (p.vals[2] - p.vals[1] + 1) + 3 = p.count
                      THEN {"rawmb"} ELSE {})
           : p \in {parse_integers(input, MAX_TRACKS + 10)} })

\* toc_detect_format has run on the text
Detected == tpc = "text" /\ detected # "none"

\* C28: toc_detect_format returns one of the four dialects or Invalid on every
\* text; Indeterminate is never returned.
C28_NeverIndeterminate ==
    Detected => detected \in {"raw", "musicbrainz", "accuraterip", "freedb", "invalid"}

\* a text that satisfies the AccurateRip and the Raw/MB count predicates was
\* detected
C28_Witness ==
    /\ Detected
    /\ CountMatches(text) = {"accuraterip", "rawmb"}
    /\ detected # "invalid"

\* a text that satisfies the FreeDB and the Raw/MB count predicates was
\* detected
C28_WitnessFreeDB ==
    /\ Detected
    /\ CountMatches(text) = {"freedb", "rawmb"}

-----------------------------------------------------------------------------
(* The counts of a parsed AccurateRip TOC *)

\* toc_parse_accuraterip has returned 0
AccurateRipParsed == ParseOk /\ format = "accuraterip"

\* C29: in every Toc of a successful AccurateRip parse the tracks typed audio
\* number audio_count, the tracks typed data number data_count, and
\* audio_count + data_count = track_count.
C29_CountsMatchTypes ==
    AccurateRipParsed =>
        /\ Cardinality(AudioIdx(parsed.toc)) = parsed.toc.audio_count
        /\ Cardinality(DataIdx(parsed.toc)) = parsed.toc.data_count
        /\ parsed.toc.audio_count + parsed.toc.data_count = parsed.toc.track_count

\* the text "3 1 2 0 1000 2000 3000" is accepted with audio_count 1 and
\* data_count 2 and two tracks typed audio
C29_TypedAudioExceedsCount ==
    /\ AccurateRipParsed /\ tocIn = <<>> /\ text = OneAudioOfThreeText
    /\ parsed.toc.audio_count = 1 /\ parsed.toc.data_count = 2
    /\ AudioIdx(parsed.toc) = {2, 3}
    /\ DataIdx(parsed.toc) = {1}

\* a text written by toc_format_accuraterip from a Mixed disc parses to counts
\* that match the types
C29_RenderedMatches ==
    /\ AccurateRipParsed /\ tocIn # <<>>
    /\ parsed.toc.data_count > 0
    /\ Cardinality(AudioIdx(parsed.toc)) = parsed.toc.audio_count
    /\ Cardinality(DataIdx(parsed.toc)) = parsed.toc.data_count

-----------------------------------------------------------------------------
(* A discarded pack and the packs after it *)

\* the text packs of the stream that fail the CRC check (indices in TextPacksOf)
DiscardedAt(stream) ==
    {k \in 1..Len(TextPacksOf(stream)) : ~CrcIntact(TextPacksOf(stream)[k])}

\* the position in the payload of the NUL that ends the i-th string
NulPos(payload, i) ==
    CHOOSE j \in 1..Len(payload) : payload[j] = 0 /\ NulsBefore(payload, j) = i

\* the positions in the payload of the i-th string and its NUL
StringSpan(payload, i) ==
    (IF i = 0 THEN 1 ELSE NulPos(payload, i - 1) + 1)..NulPos(payload, i)

\* the positions in the payload of the text of the k-th text pack
PackSpan(k) == (((k - 1) * CDTEXT_TEXT_SIZE) + 1)..(k * CDTEXT_TEXT_SIZE)

\* the stream is well formed: block-0 packs of one per-track text pack type
\* and the size-info pack, sequence numbers from 0, and each track_num the
\* track of the pack's first payload byte
WellFormedStream ==
    /\ \A k \in 1..Len(packs) : PackBlock(packs[k]) = 0
    /\ TextPacksOf(packs) # <<>>
    /\ TextPacksOf(packs)[1].pack_type \in TrackTextTypes
    /\ \A k \in 1..Len(packs) :
         packs[k].pack_type \in {TextPacksOf(packs)[1].pack_type, CDTEXT_PACK_SIZE_INFO}
    /\ \A k \in SizeInfoAt : CrcIntact(packs[k]) /\ packs[k].text[1] \in {0, 1}
    /\ \A k \in 1..Len(TextPacksOf(packs)) :
         /\ TextPacksOf(packs)[k].seq_num = k - 1
         /\ TextPacksOf(packs)[k].track_num
              = TextPacksOf(packs)[1].track_num
                + NulsBefore(PayloadOf(packs), ((k - 1) * CDTEXT_TEXT_SIZE) + 1)

\* C30: in a well-formed stream of which one pack is discarded for CRC failure,
\* every string of which the discarded pack carried no byte, for a track up to
\* the declared last track, is still emitted as the field of its track.
C30_DiscardKeepsTracks ==
    (cpc = "done" /\ WellFormedStream /\ Cardinality(DiscardedAt(packs)) = 1)
        => \A i \in 0..(NulStringCount(PayloadOf(packs)) - 1) :
             (/\ TextPacksOf(packs)[1].track_num + i <= Min2(bstate.last_track, MAX_TRACKS)
              /\ \A k \in DiscardedAt(packs) :
                   StringSpan(PayloadOf(packs), i) \cap PackSpan(k) = {})
                => StringIsField(packs, cdtext[1], bstate.charset, i)

\* the first of the four title packs ("ALBUM TITLE\0", track 0) was discarded:
\* the second pack names track 1 and holds "TRACK ONE\0", which was emitted as
\* the album title while the title of track 1 is absent
C30_TextToStaleTrack ==
    /\ cpc = "done" /\ WellFormedStream
    /\ DiscardedAt(packs) = {1}
    /\ PayloadOf(packs) = AlbumTitlePayload
    /\ TextPacksOf(packs)[2].track_num = 1 /\ CrcIntact(TextPacksOf(packs)[2])
    /\ cdtext[1].album.album = <<<<84, 82, 65, 67, 75, 32, 79, 78, 69>>>>
    /\ cdtext[1].tracks[0].title = <<>>

\* a discarded first pack that names the album and holds no NUL leaves the
\* later strings with their tracks
C30_NoNulDiscarded ==
    /\ cpc = "done" /\ WellFormedStream
    /\ DiscardedAt(packs) = {1}
    /\ \A z \in PackSpan(1) : PayloadOf(packs)[z] # 0
    /\ TextPacksOf(packs)[1].track_num = 0
    /\ cdtext[1].tracks[0].title = <<<<88, 89>>>>

=============================================================================
